---- MODULE Spec2Model ----
(***************************************************************************)
(* A model of treemd's markdown structural model (Document::build_tree,    *)
(* Document::extract_section), its query-language parser, the function     *)
(* registry with its Levenshtein suggestions, and the slugify helpers.     *)
(*                                                                         *)
(* Every component has one variable holding a record of that component's   *)
(* state; a specification drives one component and leaves the others at    *)
(* their idle value.  Text is modelled as a sequence of one-character      *)
(* strings, so that searching, splitting and comparing are computed, not   *)
(* assumed.                                                                *)
(***************************************************************************)
EXTENDS Integers, Sequences, FiniteSets, TLC

VARIABLES lev, slug, reg, tree, sect, prs, fnc, cnt

vars == <<lev, slug, reg, tree, sect, prs, fnc, cnt>>

Idle == [pc |-> "idle"]

(***************************************************************************)
(* Text helpers (Rust str operations used by the modelled code).           *)
(***************************************************************************)

\* All texts of length 0..n over the characters cs.
Texts(cs, n) == UNION {[1..k -> cs] : k \in 0..n}

Min2(x, y) == IF x <= y THEN x ELSE y

\* str::starts_with
StartsWith(s, p) == Len(p) <= Len(s) /\ SubSeq(s, 1, Len(p)) = p

\* The 0-based offsets at which p occurs in s.
Occurrences(s, p) ==
    {k \in 0..(Len(s) - Len(p)) : SubSeq(s, k + 1, k + Len(p)) = p}

\* str::contains
Contains(s, p) == Occurrences(s, p) # {}

\* char::to_lowercase on the modelled characters.
LowerChar(c) ==
    CASE c = "A" -> "a"
      [] c = "C" -> "c"
      [] c = "O" -> "o"
      [] OTHER -> c

\* str::to_lowercase
ToLower(s) == [k \in 1..Len(s) |-> LowerChar(s[k])]

(***************************************************************************)
(* levenshtein (query/registry.rs).                                        *)
(***************************************************************************)

\* A cell that forgets the deletion neighbour matrix[i-1][j].
LevCellNoDelete(up, left, diag, cost) == Min2(left + 1, diag + cost)

\* matrix[i][j] from matrix[i-1][j], matrix[i][j-1], matrix[i-1][j-1].
LevCell(up, left, diag, cost) == Min2(Min2(up + 1, left + 1), diag + cost)

\* Row i of the matrix, filled left to right.  prev is row i-1 and acc the
\* cells 0..j-1 of row i; cell j of a row is stored at position j+1.
RECURSIVE LevRow(_, _, _, _, _)
LevRow(a, b, i, prev, acc) ==
    IF Len(acc) = Len(b) + 1 THEN acc
    ELSE LET j == Len(acc)
             cost == IF a[i] = b[j] THEN 0 ELSE 1
         IN  LevRow(a, b, i, prev,
                    Append(acc, LevCell(prev[j + 1], acc[j], prev[j], cost)))

\* The rows 1..a_len in turn, starting from row 0 (matrix[0][j] = j); each
\* row starts with matrix[i][0] = i.
RECURSIVE LevRows(_, _, _, _)
LevRows(a, b, i, prev) ==
    IF i > Len(a) THEN prev
    ELSE LevRows(a, b, i + 1, LevRow(a, b, i, prev, <<i>>))

levenshtein(a, b) ==
    IF Len(a) = 0 THEN Len(b)
    ELSE IF Len(b) = 0 THEN Len(a)
    ELSE LevRows(a, b, 1, [j \in 1..(Len(b) + 1) |-> j - 1])[Len(b) + 1]

\* Inputs of the distance check.
MaxLevLen == 3
LevChars == {"a", "b"}

LevInit ==
    /\ \E a \in Texts(LevChars, MaxLevLen), b \in Texts(LevChars, MaxLevLen),
          c \in Texts(LevChars, MaxLevLen) :
           lev = [pc |-> "input", a |-> a, b |-> b, c |-> c]
    /\ slug = Idle /\ reg = Idle /\ tree = Idle /\ sect = Idle /\ prs = Idle
    /\ fnc = Idle /\ cnt = Idle

\* The five distances of one triple of texts.
LevCompute ==
    /\ lev.pc = "input"
    /\ lev' = [pc |-> "done", a |-> lev.a, b |-> lev.b, c |-> lev.c,
               aa |-> levenshtein(lev.a, lev.a),
               ab |-> levenshtein(lev.a, lev.b),
               ba |-> levenshtein(lev.b, lev.a),
               bc |-> levenshtein(lev.b, lev.c),
               ac |-> levenshtein(lev.a, lev.c)]
    /\ UNCHANGED <<slug, reg, tree, sect, prs, fnc, cnt>>

SpecLev == LevInit /\ [][LevCompute]_vars

\* C7: levenshtein is a metric: lev(a,a) = 0, lev(a,b) = lev(b,a) and
\* lev(a,c) <= lev(a,b) + lev(b,c), for every triple of texts.
C7_LevMetric ==
    lev.pc = "done" =>
        /\ lev.aa = 0
        /\ lev.ab = lev.ba
        /\ lev.ac <= lev.ab + lev.bc

\* A triple of three different texts whose triangle inequality is tight and
\* whose distances are all positive.
C7_Witness ==
    /\ lev.pc = "done"
    /\ lev.a # lev.b /\ lev.b # lev.c /\ lev.a # lev.c
    /\ lev.ab > 0 /\ lev.bc > 0
    /\ lev.ac = lev.ab + lev.bc
    /\ lev.b # <<>> /\ lev.c # <<>>
    /\ Len(lev.a) = MaxLevLen

(***************************************************************************)
(* slugify: parser/content.rs, the `slugify` built-in, and the heading     *)
(* `slug` property of query/value.rs.                                      *)
(***************************************************************************)

\* char::is_alphanumeric on the modelled characters.
IsAlphanumeric(c) == c \in {"A", "a", "C", "c", "O", "o", "1"}

\* char::is_whitespace on the modelled characters.
IsWhitespace(c) == c \in {" ", "\n"}

\* The character '\0' that marks a dropped character.
Nul == "NUL"

\* The closure of parser slugify's map().
SlugMapParser(c) ==
    IF IsAlphanumeric(c) THEN c
    ELSE IF IsWhitespace(c) \/ c = "-" THEN "-"
    ELSE Nul

\* The closure of fn_slugify's map().
SlugMapBuiltin(c) ==
    IF IsAlphanumeric(c) THEN c
    ELSE IF IsWhitespace(c) \/ c = "-" THEN "-"
    ELSE Nul

\* The closure of the value module's slugify map().
SlugMapValue(c) ==
    IF IsAlphanumeric(c) THEN c
    ELSE IF IsWhitespace(c) \/ c = "-" \/ c = "." \/ c = "_" THEN "-"
    ELSE Nul

\* .filter(|&c| c != '\0')
DropNul(s) == SelectSeq(s, LAMBDA c : c # Nul)

\* str::split(d): the segments between the occurrences of d (always at
\* least one segment).
RECURSIVE SplitAcc(_, _, _, _)
SplitAcc(s, d, k, cur) ==
    IF k > Len(s) THEN <<cur>>
    ELSE IF s[k] = d THEN <<cur>> \o SplitAcc(s, d, k + 1, <<>>)
    ELSE SplitAcc(s, d, k + 1, Append(cur, s[k]))

Split(s, d) == SplitAcc(s, d, 1, <<>>)

\* Only a first empty segment is dropped.
DropFirstEmptySegment(segs) ==
    IF Len(segs) > 0 /\ segs[1] = <<>> THEN Tail(segs) ELSE segs

\* .filter(|s| !s.is_empty())
NonEmptySegments(segs) == SelectSeq(segs, LAMBDA g : g # <<>>)

\* [&str]::join(d)
RECURSIVE Join(_, _)
Join(segs, d) ==
    IF Len(segs) = 0 THEN <<>>
    ELSE IF Len(segs) = 1 THEN segs[1]
    ELSE segs[1] \o <<d>> \o Join(Tail(segs), d)

\* parser::content::slugify
slugify(text) ==
    Join(NonEmptySegments(Split(DropNul(
        [k \in 1..Len(text) |-> SlugMapParser(ToLower(text)[k])]), "-")), "-")

\* builtins::fn_slugify on a string input (to_text of a string is itself).
fn_slugify(text) ==
    Join(NonEmptySegments(Split(DropNul(
        [k \in 1..Len(text) |-> SlugMapBuiltin(ToLower(text)[k])]), "-")), "-")

\* value::slugify, which HeadingValue's `slug` property returns.
value_slugify(text) ==
    Join(NonEmptySegments(Split(DropNul(
        [k \in 1..Len(text) |-> SlugMapValue(ToLower(text)[k])]), "-")), "-")

\* Inputs of the slug check.
MaxSlugLen == 4
SlugChars == {"A", "a", "1", " ", "-", ".", "_", "!"}

SlugInit ==
    /\ \E s \in Texts(SlugChars, MaxSlugLen) :
           slug = [pc |-> "input", s |-> s]
    /\ lev = Idle /\ reg = Idle /\ tree = Idle /\ sect = Idle /\ prs = Idle
    /\ fnc = Idle /\ cnt = Idle

\* The three slugs of one text, and the slugs of the slugs.
SlugCompute ==
    /\ slug.pc = "input"
    /\ slug' = [pc |-> "done", s |-> slug.s,
                p |-> slugify(slug.s),
                b |-> fn_slugify(slug.s),
                v |-> value_slugify(slug.s),
                pp |-> slugify(slugify(slug.s)),
                vv |-> value_slugify(value_slugify(slug.s))]
    /\ UNCHANGED <<lev, reg, tree, sect, prs, fnc, cnt>>

SpecSlug == SlugInit /\ [][SlugCompute]_vars

\* The slug the specification describes: lowercase, alphanumerics kept,
\* whitespace and '-' become '-', the rest dropped, runs of '-' collapsed,
\* no '-' at either end.
IsSpecSlugOf(out, s) ==
    LET kept == SelectSeq(ToLower(s),
                    LAMBDA c : IsAlphanumeric(c) \/ IsWhitespace(c) \/ c = "-")
        dashed == [k \in 1..Len(kept) |->
                      IF IsAlphanumeric(kept[k]) THEN kept[k] ELSE "-"]
    IN  /\ SelectSeq(out, LAMBDA c : c # "-") =
               SelectSeq(dashed, LAMBDA c : c # "-")
        /\ \A k \in 1..Len(out) : out[k] = "-" =>
               /\ 1 < k /\ k < Len(out)
               /\ out[k + 1] # "-"
        /\ Len(SelectSeq(out, LAMBDA c : c = "-")) + 1 =
               Len(NonEmptySegments(Split(dashed, "-")))
               + (IF NonEmptySegments(Split(dashed, "-")) = <<>> THEN 1 ELSE 0)

\* C8: parser slugify, the slugify built-in and the heading slug property
\* compute the same function, the slug the specification describes.
C8_SlugifySameFunction ==
    slug.pc = "done" =>
        /\ slug.p = slug.b
        /\ slug.b = slug.v
        /\ IsSpecSlugOf(slug.p, slug.s)

\* C9: slugify is idempotent, slugify(slugify(s)) = slugify(s), for the
\* parser's slugify and for the value module's.
C9_SlugifyIdempotent ==
    slug.pc = "done" => slug.pp = slug.p /\ slug.vv = slug.v

\* A text that slugify changes in every way at once: a capital lowered, a
\* character dropped, a run of separators collapsed, an end trimmed.
C9_Witness ==
    /\ slug.pc = "done"
    /\ slug.s = <<" ", "A", "!", "-">>
    /\ slug.p = <<"a">>
    /\ slug.pp = slug.p

(***************************************************************************)
(* Registry (query/registry.rs): the functions and aliases maps, lookup    *)
(* and suggestions.  A registered Function is modelled by a token naming   *)
(* its implementation; Option<&Function> is the set of at most one token.  *)
(***************************************************************************)

\* HashMap::insert
MapInsert(m, k, v) ==
    [x \in (DOMAIN m) \cup {k} |-> IF x = k THEN v ELSE m[x]]

\* Registry::new.  pc is "suggested" while the result of a suggest_function
\* call (query, suggestions) is alive: the result borrows the registry, so
\* it is gone before the next &mut self call.
RegInit ==
    /\ reg = [pc |-> "ready", functions |-> <<>>, aliases |-> <<>>,
              query |-> <<>>, suggestions |-> <<>>]
    /\ lev = Idle /\ slug = Idle /\ tree = Idle /\ sect = Idle /\ prs = Idle
    /\ fnc = Idle /\ cnt = Idle

\* Registry::register_function
RegisterFunction(name, func) ==
    /\ reg.pc \in {"ready", "suggested"}
    /\ reg' = [reg EXCEPT !.functions = MapInsert(reg.functions, name, func),
                          !.pc = "ready", !.query = <<>>,
                          !.suggestions = <<>>]
    /\ UNCHANGED <<lev, slug, tree, sect, prs, fnc, cnt>>

\* Registry::register_alias
RegisterAlias(alias, target) ==
    /\ reg.pc \in {"ready", "suggested"}
    /\ reg' = [reg EXCEPT !.aliases = MapInsert(reg.aliases, alias, target),
                          !.pc = "ready", !.query = <<>>,
                          !.suggestions = <<>>]
    /\ UNCHANGED <<lev, slug, tree, sect, prs, fnc, cnt>>

\* A lookup that never consults the aliases map.
get_function_direct_only(r, name) ==
    IF name \in DOMAIN r.functions THEN {r.functions[name]} ELSE {}

\* Registry::get_function
get_function(r, name) ==
    IF name \in DOMAIN r.functions THEN {r.functions[name]}
    ELSE IF name \in DOMAIN r.aliases
         THEN IF r.aliases[name] \in DOMAIN r.functions
              THEN {r.functions[r.aliases[name]]}
              ELSE {}
         ELSE {}

\* Registry::has_function
has_function(r, name) ==
    name \in DOMAIN r.functions \/ name \in DOMAIN r.aliases

\* The names and implementations the alias checks register.
RegNames == {<<"c", "o">>, <<"l", "e">>, <<"s", "i">>}
RegFuncs == {"fn_count", "fn_other"}

RegistryNext ==
    \/ \E name \in RegNames, func \in RegFuncs : RegisterFunction(name, func)
    \/ \E alias \in RegNames, target \in RegNames :
           RegisterAlias(alias, target)

SpecRegistry == RegInit /\ [][RegistryNext]_vars

\* C4 as stated: for every alias a whose target t is a registered function
\* name, get_function(a) is the function registered under t and
\* has_function(a) is true.
C4_AliasResolvesToTarget ==
    \A a \in DOMAIN reg.aliases :
        reg.aliases[a] \in DOMAIN reg.functions =>
            /\ get_function(reg, a) = {reg.functions[reg.aliases[a]]}
            /\ has_function(reg, a)

\* C4 amended: the same for every alias that is not itself the name of a
\* registered function (a direct registration is looked up first).
C4_UnshadowedAliasResolvesToTarget ==
    \A a \in DOMAIN reg.aliases :
        (a \notin DOMAIN reg.functions
         /\ reg.aliases[a] \in DOMAIN reg.functions) =>
            /\ get_function(reg, a) = {reg.functions[reg.aliases[a]]}
            /\ has_function(reg, a)

\* An alias of a registered target, not registered itself, beside a third
\* name registered with another implementation.
C4_Witness ==
    \E a \in DOMAIN reg.aliases, n \in DOMAIN reg.functions :
        /\ a \notin DOMAIN reg.functions
        /\ reg.aliases[a] \in DOMAIN reg.functions
        /\ n # reg.aliases[a]
        /\ reg.functions[n] # reg.functions[reg.aliases[a]]
        /\ get_function(reg, a) = {reg.functions[reg.aliases[a]]}

(***************************************************************************)
(* Registry::suggest_function.                                             *)
(***************************************************************************)

\* Every order in which a HashMap may iterate over the keys S.
RECURSIVE Perms(_)
Perms(S) ==
    IF S = {} THEN {<<>>}
    ELSE UNION {{<<x>> \o p : p \in Perms(S \ {x})} : x \in S}

\* The filter with the distance test written `< 2`.
SuggestMatchesBelowTwo(n, name_lower) ==
    LET n_lower == ToLower(n)
    IN  \/ StartsWith(n_lower, name_lower)
        \/ StartsWith(name_lower, n_lower)
        \/ Contains(n_lower, name_lower)
        \/ Contains(name_lower, n_lower)
        \/ levenshtein(n_lower, name_lower) < 2

\* The closure of suggest_function's filter().
SuggestMatches(n, name_lower) ==
    LET n_lower == ToLower(n)
    IN  \/ StartsWith(n_lower, name_lower)
        \/ StartsWith(name_lower, n_lower)
        \/ Contains(n_lower, name_lower)
        \/ Contains(name_lower, n_lower)
        \/ levenshtein(n_lower, name_lower) <= 2

\* The elements left in the order they came.
KeepOrder(s, key) == s

\* slice::sort_by_key, a stable sort: each element in turn goes behind the
\* elements already placed whose key is not greater.
RECURSIVE SortByKey(_, _)
SortByKey(s, key) ==
    IF s = <<>> THEN <<>>
    ELSE LET front == SortByKey(SubSeq(s, 1, Len(s) - 1), key)
             x == s[Len(s)]
             k == Cardinality({m \in 1..Len(front) : key[front[m]] <= key[x]})
         IN  SubSeq(front, 1, k) \o <<x>> \o SubSeq(front, k + 1, Len(front))

\* Vec::truncate
Truncate(s, n) == SubSeq(s, 1, Min2(n, Len(s)))

\* The number of suggestions kept.
MaxSuggestions == 3

\* Registry::suggest_function, with the functions map iterating in the
\* order keys.
suggest_function(r, keys, name) ==
    LET name_lower == ToLower(name)
        dist == [n \in DOMAIN r.functions |->
                    levenshtein(ToLower(n), name_lower)]
        suggestions == SelectSeq(keys, LAMBDA n : SuggestMatches(n, name_lower))
    IN  Truncate(SortByKey(suggestions, dist), MaxSuggestions)

SuggestFunction(name) ==
    /\ reg.pc \in {"ready", "suggested"}
    /\ \E keys \in Perms(DOMAIN reg.functions) :
           reg' = [reg EXCEPT !.pc = "suggested", !.query = name,
                              !.suggestions = suggest_function(reg, keys, name)]
    /\ UNCHANGED <<lev, slug, tree, sect, prs, fnc, cnt>>

\* The registered names and the looked-up names of the suggestion checks.
SuggestNames ==
    { <<"c", "o">>, <<"o", "a">>, <<"c", "a", "o", "a", "a">>,
      <<"o", "o", "o", "o", "o">>, <<"C", "O", "A", "A", "A", "A">> }
SuggestQueries ==
    { <<"c", "o", "a", "a", "a">>, <<"c", "o">>, <<"O", "A">> }

SuggestNext ==
    \/ \E name \in SuggestNames : RegisterFunction(name, "fn_count")
    \/ \E name \in SuggestQueries : SuggestFunction(name)

SpecSuggest == RegInit /\ [][SuggestNext]_vars

\* Case-insensitive distance of a registered name to the looked-up name.
SuggestDist(n) == levenshtein(ToLower(n), ToLower(reg.query))

\* C5: if the looked-up name is unknown and some registered name is within
\* Levenshtein distance 2 of it (both lowercased), suggest_function returns
\* at least one suggestion.
C5_SuggestionWhenNear ==
    (/\ reg.pc = "suggested"
     /\ ~has_function(reg, reg.query)
     /\ \E n \in DOMAIN reg.functions : SuggestDist(n) <= 2)
        => Len(reg.suggestions) >= 1

\* An unknown name whose only near registered name is at distance exactly
\* 2 and neither contains it nor is contained in it.
C5_Witness ==
    /\ reg.pc = "suggested"
    /\ ~has_function(reg, reg.query)
    /\ \E n \in DOMAIN reg.functions :
           /\ SuggestDist(n) = 2
           /\ ~Contains(ToLower(n), ToLower(reg.query))
           /\ ~Contains(ToLower(reg.query), ToLower(n))
           /\ reg.suggestions = <<n>>

\* A name qualifies, as the claim has it: it starts with the looked-up
\* name, contains it, or is within distance 2 (case-insensitively).
QualifiesForward(n) ==
    \/ StartsWith(ToLower(n), ToLower(reg.query))
    \/ Contains(ToLower(n), ToLower(reg.query))
    \/ SuggestDist(n) <= 2

\* A name qualifies, as the code has it: also when the looked-up name
\* starts with it or contains it.
QualifiesEitherWay(n) ==
    \/ QualifiesForward(n)
    \/ StartsWith(ToLower(reg.query), ToLower(n))
    \/ Contains(ToLower(reg.query), ToLower(n))

\* The suggestions are at most three different registered names in order
\* of non-decreasing distance, and no name left out is nearer than one
\* returned; when more than three qualify, three are returned.
SuggestionsAreNearest(Q(_)) ==
    LET sug == reg.suggestions
        returned == {sug[k] : k \in 1..Len(sug)}
        qualifying == {n \in DOMAIN reg.functions : Q(n)}
    IN  /\ Len(sug) <= 3
        /\ Cardinality(returned) = Len(sug)
        /\ returned \subseteq qualifying
        /\ \A k \in 1..(Len(sug) - 1) :
               SuggestDist(sug[k]) <= SuggestDist(sug[k + 1])
        /\ \A n \in qualifying \ returned, m \in returned :
               SuggestDist(m) <= SuggestDist(n)
        /\ Cardinality(qualifying) > 3 => Len(sug) = 3
        /\ Cardinality(qualifying) <= 3 => returned = qualifying

\* C6 as stated: every suggestion starts with the looked-up name, contains
\* it or is within distance 2 of it; at most three, nearest first, the
\* three nearest when more than three qualify.
C6_SuggestionsQualifyForward ==
    reg.pc = "suggested" => SuggestionsAreNearest(QualifiesForward)

\* C6 amended: every suggestion starts with the looked-up name, contains
\* it, is a prefix or a part of it, or is within distance 2 of it; at most
\* three, nearest first, the three nearest when more than three qualify.
C6_SuggestionsQualifyEitherWay ==
    reg.pc = "suggested" => SuggestionsAreNearest(QualifiesEitherWay)

\* Four names qualify, at three different distances, and one of them only
\* because the looked-up name contains it; the three nearest are returned.
C6_Witness ==
    /\ reg.pc = "suggested"
    /\ Cardinality({n \in DOMAIN reg.functions : QualifiesEitherWay(n)}) = 4
    /\ Len(reg.suggestions) = 3
    /\ SuggestDist(reg.suggestions[1]) < SuggestDist(reg.suggestions[2])
    /\ SuggestDist(reg.suggestions[2]) < SuggestDist(reg.suggestions[3])
    /\ ~QualifiesForward(reg.suggestions[3])

(***************************************************************************)
(* Document::build_tree (parser/document.rs).  The arena's node ids are    *)
(* the positions 1..n of the headings; children[p] is the child list of    *)
(* node p in the arena.                                                    *)
(***************************************************************************)

\* Bounds of the heading lists.
MaxHeadings == 5
MaxTreeLevel == 3

HeadingTexts == {<<"a">>}

HeadingLists ==
    UNION {[1..n -> [level : 1..MaxTreeLevel, text : HeadingTexts]] :
               n \in 0..MaxHeadings}

TreeInit ==
    /\ \E hs \in HeadingLists :
           tree = [pc |-> "for", headings |-> hs, i |-> 0, stack |-> <<>>,
                   roots |-> <<>>, children |-> [n \in 1..Len(hs) |-> <<>>],
                   result |-> <<>>]
    /\ lev = Idle /\ slug = Idle /\ reg = Idle /\ sect = Idle /\ prs = Idle
    /\ fnc = Idle /\ cnt = Idle

\* The pop loop also stops at a parent of the same level.
StopsAtSameLevel(parent_level, level) == parent_level <= level

\* `if parent_level < heading.level { break; }`
StopsPopping(parent_level, level) == parent_level < level

\* `for heading in &self.headings`: the next heading gets its arena node.
TreeNewNode ==
    /\ tree.pc = "for"
    /\ tree.i < Len(tree.headings)
    /\ tree' = [tree EXCEPT !.pc = "while", !.i = tree.i + 1]
    /\ UNCHANGED <<lev, slug, reg, sect, prs, fnc, cnt>>

\* One iteration of the `while let Some(..) = stack.last()` loop that pops.
TreePop ==
    /\ tree.pc = "while"
    /\ tree.stack # <<>>
    /\ ~StopsPopping(tree.stack[Len(tree.stack)][1],
                     tree.headings[tree.i].level)
    /\ tree' = [tree EXCEPT !.stack = SubSeq(tree.stack, 1, Len(tree.stack) - 1)]
    /\ UNCHANGED <<lev, slug, reg, sect, prs, fnc, cnt>>

\* The loop is left; the node is appended to the parent on top of the
\* stack, or to the roots, and pushed.
TreeAttach ==
    /\ tree.pc = "while"
    /\ IF tree.stack = <<>> THEN TRUE
       ELSE StopsPopping(tree.stack[Len(tree.stack)][1],
                         tree.headings[tree.i].level)
    /\ LET node_id == tree.i
           pushed == Append(tree.stack,
                            <<tree.headings[node_id].level, node_id>>)
       IN  IF tree.stack # <<>>
           THEN LET parent_id == tree.stack[Len(tree.stack)][2]
                IN  tree' = [tree EXCEPT
                                !.children[parent_id] = Append(@, node_id),
                                !.stack = pushed, !.pc = "for"]
           ELSE tree' = [tree EXCEPT !.roots = Append(@, node_id),
                                     !.stack = pushed, !.pc = "for"]
    /\ UNCHANGED <<lev, slug, reg, sect, prs, fnc, cnt>>

\* build_heading_node collecting the children last to first.
RECURSIVE build_heading_node_reversed(_, _, _)
build_heading_node_reversed(node_id, headings, children) ==
    [heading |-> headings[node_id],
     children |-> [k \in 1..Len(children[node_id]) |->
                      build_heading_node_reversed(
                          children[node_id][Len(children[node_id]) + 1 - k],
                          headings, children)]]

\* build_heading_node
RECURSIVE build_heading_node(_, _, _)
build_heading_node(node_id, headings, children) ==
    [heading |-> headings[node_id],
     children |-> [k \in 1..Len(children[node_id]) |->
                      build_heading_node(children[node_id][k], headings,
                                         children)]]

\* The arena is converted to the forest of HeadingNode that is returned.
TreeConvert ==
    /\ tree.pc = "for"
    /\ tree.i = Len(tree.headings)
    /\ tree' = [tree EXCEPT
                   !.pc = "done",
                   !.result = [k \in 1..Len(tree.roots) |->
                                  build_heading_node(tree.roots[k],
                                      tree.headings, tree.children)]]
    /\ UNCHANGED <<lev, slug, reg, sect, prs, fnc, cnt>>

TreeNext == TreeNewNode \/ TreePop \/ TreeAttach \/ TreeConvert

SpecTree == TreeInit /\ [][TreeNext]_vars

\* The nodes whose child list holds node n.
TreeParents(n) ==
    {p \in 1..Len(tree.headings) :
        \E k \in 1..Len(tree.children[p]) : tree.children[p][k] = n}

\* The preceding headings of a smaller level than heading n.
SmallerBefore(n) ==
    {j \in 1..(n - 1) : tree.headings[j].level < tree.headings[n].level}

TreeIsRoot(n) == \E k \in 1..Len(tree.roots) : tree.roots[k] = n

\* C1: in the built tree each heading is a child of the nearest preceding
\* heading of a strictly smaller level, and of no other; it is a root
\* exactly when no preceding heading has a smaller level.
C1_ParentIsNearestSmaller ==
    tree.pc = "done" =>
        \A n \in 1..Len(tree.headings) :
            IF SmallerBefore(n) = {}
            THEN TreeIsRoot(n) /\ TreeParents(n) = {}
            ELSE /\ ~TreeIsRoot(n)
                 /\ TreeParents(n) =
                        {CHOOSE j \in SmallerBefore(n) :
                             \A m \in SmallerBefore(n) : m <= j}

\* A finished tree in which a heading skips back over deeper and equal
\* headings to a parent that is not its predecessor, and a later heading
\* of the top level is a second root.
C1_Witness ==
    /\ tree.pc = "done"
    /\ \E n \in 1..Len(tree.headings) :
           /\ SmallerBefore(n) # {}
           /\ TreeParents(n) # {n - 1}
           /\ n - 1 \notin SmallerBefore(n)
           /\ tree.headings[n - 1].level > tree.headings[n].level
    /\ Len(tree.roots) >= 2
    /\ Len(tree.result) = Len(tree.roots)

(***************************************************************************)
(* Documents and Document::extract_section (parser/mod.rs,                 *)
(* parser/document.rs).  A document's content is the text of its lines     *)
(* joined by newlines; its heading list is what parse_markdown collects    *)
(* from the CommonMark events: the ATX heading lines outside fenced code.  *)
(***************************************************************************)

\* The character '`'.
Backtick == "BACKTICK"

\* The lines documents are made of: `# a`, `## a`, `## ab`, a code fence
\* and a line of text.
DocLines ==
    { <<"#", " ", "a">>, <<"#", "#", " ", "a">>,
      <<"#", "#", " ", "a", "b">>, <<Backtick, Backtick, Backtick>>,
      <<"t">> }

\* Bound of the documents' length in lines.
MaxDocLines == 4

\* The heading texts looked up.
SectionQueries == {<<"a">>, <<"a", "b">>, <<"A">>}

\* str::trim_start
RECURSIVE TrimStart(_)
TrimStart(s) ==
    IF s # <<>> /\ IsWhitespace(s[1]) THEN TrimStart(Tail(s)) ELSE s

\* str::lines with each line's byte offset: the segments between newlines,
\* without a last empty one.
RECURSIVE LinesFrom(_, _, _, _)
LinesFrom(s, k, cur, curStart) ==
    IF k > Len(s)
    THEN IF curStart = Len(s) THEN <<>>
         ELSE <<[text |-> cur, offset |-> curStart]>>
    ELSE IF s[k] = "\n"
         THEN <<[text |-> cur, offset |-> curStart]>>
              \o LinesFrom(s, k + 1, <<>>, k)
         ELSE LinesFrom(s, k + 1, Append(cur, s[k]), curStart)

Lines(s) == LinesFrom(s, 1, <<>>, 0)

\* The number of '#' a text starts with.
RECURSIVE LeadingHashes(_)
LeadingHashes(s) ==
    IF s # <<>> /\ s[1] = "#" THEN 1 + LeadingHashes(Tail(s)) ELSE 0

\* "```" as a text.
Fence == <<Backtick, Backtick, Backtick>>

\* The CommonMark reading of the lines from line k on: the headings
\* (level, text, offset of the heading line) outside fenced code blocks.
RECURSIVE CommonMarkHeadings(_, _, _)
CommonMarkHeadings(ls, k, in_fence) ==
    IF k > Len(ls) THEN <<>>
    ELSE LET line == ls[k].text
             n == LeadingHashes(line)
         IN  IF StartsWith(line, Fence)
             THEN CommonMarkHeadings(ls, k + 1, ~in_fence)
             ELSE IF /\ ~in_fence
                     /\ n \in 1..6
                     /\ (Len(line) = n \/ line[n + 1] = " ")
                  THEN <<[level |-> n,
                          text |-> TrimStart(SubSeq(line, n + 1, Len(line))),
                          offset |-> ls[k].offset]>>
                       \o CommonMarkHeadings(ls, k + 1, in_fence)
                  ELSE CommonMarkHeadings(ls, k + 1, in_fence)

\* parse_markdown: the Heading {level, text} of every heading event.
parse_markdown(content) ==
    LET hs == CommonMarkHeadings(Lines(content), 1, FALSE)
    IN  [k \in 1..Len(hs) |-> [level |-> hs[k].level, text |-> hs[k].text]]

\* Where each heading of parse_markdown's list starts in the content.
HeadingOffsets(content) ==
    LET hs == CommonMarkHeadings(Lines(content), 1, FALSE)
    IN  [k \in 1..Len(hs) |-> hs[k].offset]

\* Document::find_heading: the index of the first heading whose text is
\* the looked-up text, case-insensitively; 0 for None.
find_heading(headings, text) ==
    LET found == {k \in 1..Len(headings) :
                     ToLower(headings[k].text) = ToLower(text)}
    IN  IF found = {} THEN 0
        ELSE CHOOSE k \in found : \A m \in found : k <= m

\* get_heading_level: 0 for None.
get_heading_level(line) ==
    LET trimmed == TrimStart(line)
        level == LeadingHashes(trimmed)
    IN  IF level < Len(trimmed) /\ IsWhitespace(trimmed[level + 1])
        THEN level
        ELSE 0

\* "#".repeat(n)
Hashes(n) == [k \in 1..n |-> "#"]

\* A document: one to MaxDocLines lines joined by newlines, parsed.
SectInit ==
    /\ \E n \in 1..MaxDocLines : \E ls \in [1..n -> DocLines] :
           LET content == Join(ls, "\n")
           IN  sect = [pc |-> "ready", content |-> content,
                       headings |-> parse_markdown(content),
                       query |-> <<>>, heading |-> 0, start |-> 0,
                       after |-> <<>>, i |-> 0, in_code_block |-> FALSE,
                       end |-> 0, some |-> FALSE, result |-> <<>>]
    /\ lev = Idle /\ slug = Idle /\ reg = Idle /\ tree = Idle /\ prs = Idle
    /\ fnc = Idle /\ cnt = Idle

\* extract_section up to its loop, for a text no heading has: find_heading
\* returns None and so does extract_section.
ExtractNoHeading(heading_text) ==
    /\ sect.pc = "ready"
    /\ find_heading(sect.headings, heading_text) = 0
    /\ sect' = [sect EXCEPT !.pc = "done", !.query = heading_text]
    /\ UNCHANGED <<lev, slug, reg, tree, prs, fnc, cnt>>

\* extract_section up to its loop: the heading is found, the pattern
\* `#..# text` is searched in the content, and the scan is set up.
ExtractFind(heading_text) ==
    /\ sect.pc = "ready"
    /\ find_heading(sect.headings, heading_text) # 0
    /\ LET h == find_heading(sect.headings, heading_text)
           heading == sect.headings[h]
           search == Hashes(heading.level) \o <<" ">> \o heading.text
           found == Occurrences(sect.content, search)
       IN  IF found = {}
           THEN sect' = [sect EXCEPT !.pc = "done", !.query = heading_text,
                                     !.heading = h]
           ELSE LET start == CHOOSE k \in found : \A m \in found : k <= m
                    after == SubSeq(sect.content, start + 1,
                                    Len(sect.content))
                IN  sect' = [sect EXCEPT
                                !.pc = "lines", !.query = heading_text,
                                !.heading = h, !.start = start,
                                !.after = after, !.end = Len(after),
                                !.in_code_block = FALSE, !.i = 1]
    /\ UNCHANGED <<lev, slug, reg, tree, prs, fnc, cnt>>

\* One iteration of `for (i, line) in after.lines().enumerate()`, i >= 1.
ExtractLine ==
    /\ sect.pc = "lines"
    /\ sect.i < Len(Lines(sect.after))
    /\ LET line == Lines(sect.after)[sect.i + 1]
           in_code_block ==
               IF StartsWith(TrimStart(line.text), Fence)
               THEN ~sect.in_code_block ELSE sect.in_code_block
           level == get_heading_level(line.text)
       IN  IF /\ ~in_code_block
              /\ level # 0
              /\ level <= sect.headings[sect.heading].level
           THEN sect' = [sect EXCEPT !.in_code_block = in_code_block,
                                     !.end = line.offset, !.pc = "break"]
           ELSE sect' = [sect EXCEPT !.in_code_block = in_code_block,
                                     !.i = sect.i + 1]
    /\ UNCHANGED <<lev, slug, reg, tree, prs, fnc, cnt>>

\* `Some(after[..end].to_string())`, after the break or the last line.
ExtractReturn ==
    /\ sect.pc \in {"lines", "break"}
    /\ sect.pc = "lines" => sect.i >= Len(Lines(sect.after))
    /\ sect' = [sect EXCEPT !.pc = "done", !.some = TRUE,
                            !.result = SubSeq(sect.after, 1, sect.end)]
    /\ UNCHANGED <<lev, slug, reg, tree, prs, fnc, cnt>>

SectNext ==
    \/ \E heading_text \in SectionQueries : ExtractNoHeading(heading_text)
    \/ \E heading_text \in SectionQueries : ExtractFind(heading_text)
    \/ ExtractLine
    \/ ExtractReturn

SpecSection == SectInit /\ [][SectNext]_vars

\* The offset at which the section of heading h ends: that of the first
\* later heading of the list whose level is at most h's, else the end of
\* the source.
SectionBoundary(h) ==
    LET offs == HeadingOffsets(sect.content)
        later == {j \in (h + 1)..Len(sect.headings) :
                     sect.headings[j].level <= sect.headings[h].level}
    IN  IF later = {} THEN Len(sect.content)
        ELSE offs[CHOOSE j \in later : \A m \in later : j <= m]

\* C2: the section returned for the located heading H ends exactly at the
\* offset of the first later heading of the heading list whose level is
\* <= H.level, and at the end of the source when there is none.
C2_SectionEndsAtNextBoundary ==
    (sect.pc = "done" /\ sect.some) =>
        sect.start + Len(sect.result) = SectionBoundary(sect.heading)

\* C3: the section returned for the located heading H begins at H's own
\* heading line, never at an earlier occurrence of `#..# text` (inside a
\* fence, or within another heading line), and it holds no heading of the
\* list of H's level or above after H's own line.
C3_SectionStartsAtHeadingLine ==
    (sect.pc = "done" /\ sect.some) =>
        /\ sect.start = HeadingOffsets(sect.content)[sect.heading]
        /\ \A j \in 1..Len(sect.headings) :
               (/\ HeadingOffsets(sect.content)[j] > sect.start
                /\ HeadingOffsets(sect.content)[j]
                       < sect.start + Len(sect.result))
                   => sect.headings[j].level
                          > sect.headings[sect.heading].level

(***************************************************************************)
(* The query parser (query/parser.rs) over a token sequence that ends in   *)
(* Eof.  A token is [kind, val]; the parser position pos is 0-based.  A    *)
(* parse function returns [ok |-> TRUE, expr, pos] or [ok |-> FALSE,       *)
(* error, pos] (the `?` of the code passes the latter on).  Spans are not  *)
(* modelled.  Of parse_primary_expr and parse_postfix_expr the branches    *)
(* for brackets, braces, `if` and call arguments are left out: no input    *)
(* of the specifications below holds those tokens.                         *)
(***************************************************************************)

Tok(kind, val) == [kind |-> kind, val |-> val]

\* Parser::current
Current(toks, pos) ==
    IF pos + 1 <= Len(toks) THEN toks[pos + 1] ELSE toks[Len(toks)]

\* Parser::check
Check(toks, pos, kind) == Current(toks, pos).kind = kind

\* Parser::is_at_end
IsAtEnd(toks, pos) == Check(toks, pos, "Eof")

\* Parser::advance without the test of is_at_end.
advance_unchecked(toks, pos) == pos + 1

\* Parser::advance (the position after it)
Advance(toks, pos) == IF IsAtEnd(toks, pos) THEN pos ELSE pos + 1

Ok(expr, pos) == [ok |-> TRUE, expr |-> expr, pos |-> pos]
Err(error, pos) == [ok |-> FALSE, error |-> error, pos |-> pos]

\* Expr::Binary
Binary(op, left, right) ==
    [type |-> "Binary", op |-> op, left |-> left, right |-> right]

\* ElementKind::from_str on the modelled names: "" for None.
ElementKindFromStr(name) == IF name = "h2" THEN "Heading2" ELSE ""

\* BinaryOp::precedence
precedence(op) ==
    CASE op = "Or" -> 1
      [] op = "And" -> 2
      [] op \in {"Eq", "Ne"} -> 3
      [] op \in {"Lt", "Le", "Gt", "Ge"} -> 4
      [] op = "Alt" -> 5
      [] op \in {"Add", "Sub", "Concat"} -> 6
      [] op \in {"Mul", "Div", "Mod"} -> 7

\* Literal::Number, Literal::String, Literal::Bool, Literal::Null
LitNumber(n) == [type |-> "Literal", value |-> <<"Number", n>>]
LitString(s) == [type |-> "Literal", value |-> <<"String", s>>]
LitBool(b) == [type |-> "Literal", value |-> <<"Bool", b>>]
LitNull == [type |-> "Literal", value |-> <<"Null">>]

\* impl From<PipedExpr> for Expr
ExprFrom(stages) ==
    IF Len(stages) = 1 THEN stages[1]
    ELSE [type |-> "Function", name |-> "_pipe", args |-> stages]

\* The value of a `let` binding: the one element of a singleton set, so
\* that a callee's result is computed once however often it is used.
Only(S) == CHOOSE x \in S : TRUE

\* parse_identifier
parse_identifier(toks, pos) ==
    IF Check(toks, pos, "Ident")
    THEN Ok(Current(toks, pos).val, Advance(toks, pos))
    ELSE Err("UnexpectedToken: expected identifier", pos)

\* Parser::expect(RBracket) at the end of a bracket whose content is item.
ExpectRBracket(toks, pos, item) ==
    IF Check(toks, pos, "RBracket") THEN Ok(item, Advance(toks, pos))
    ELSE Err("UnexpectedToken: expected ]", pos)

\* FilterOrIndex::Index, FilterOrIndex::Filter
Index(op) == [variant |-> "Index", op |-> op]
Filter(f) == [variant |-> "Filter", filter |-> f]

\* The end of a slice: Some(e) as <<e>>, None as <<>>.
SliceEnd(toks, pos) ==
    IF Check(toks, pos, "Number") THEN <<Current(toks, pos).val>> ELSE <<>>

\* The position after the optional end of a slice.
AfterSliceEnd(toks, pos) ==
    IF Check(toks, pos, "Number") THEN Advance(toks, pos) ELSE pos

\* The link types an identifier filter names.
LinkTypeNames == {"anchor", "external", "relative", "wikilink"}

\* parse_filter_or_index from the position after a leading `-` that no
\* number follows, or from the position after `[` when no index matched.
filter_after_index(toks, pos) ==
    IF Check(toks, pos, "String")
    THEN ExpectRBracket(toks, Advance(toks, pos),
             Filter([type |-> "Text", pattern |-> Current(toks, pos).val,
                     exact |-> TRUE]))
    ELSE IF Check(toks, pos, "Regex")
    THEN ExpectRBracket(toks, Advance(toks, pos),
             Filter([type |-> "Regex", pattern |-> Current(toks, pos).val]))
    ELSE IF Check(toks, pos, "Ident")
    THEN ExpectRBracket(toks, Advance(toks, pos),
             Filter(IF Current(toks, pos).val \in LinkTypeNames
                    THEN [type |-> "Type",
                          type_name |-> Current(toks, pos).val]
                    ELSE [type |-> "Text",
                          pattern |-> Current(toks, pos).val,
                          exact |-> FALSE]))
    ELSE Err("InvalidFilter: expected filter pattern or index", pos)

\* parse_filter_or_index
parse_filter_or_index(toks, pos) ==
    IF ~Check(toks, pos, "LBracket")
    THEN Err("UnexpectedToken: expected [", pos)
    ELSE LET p1 == Advance(toks, pos)
             p2 == Advance(toks, p1)
         IN  IF Check(toks, p1, "RBracket")
             THEN Ok(Index([type |-> "Iterate"]), p2)
             ELSE IF Check(toks, p1, "Number")
             THEN IF Check(toks, p2, "Colon")
                  THEN ExpectRBracket(toks,
                           AfterSliceEnd(toks, Advance(toks, p2)),
                           Index([type |-> "Slice",
                                  start |-> <<Current(toks, p1).val>>,
                                  end |-> SliceEnd(toks,
                                              Advance(toks, p2))]))
                  ELSE ExpectRBracket(toks, p2,
                           Index([type |-> "Single",
                                  n |-> Current(toks, p1).val]))
             ELSE IF Check(toks, p1, "Colon")
             THEN ExpectRBracket(toks, AfterSliceEnd(toks, p2),
                      Index([type |-> "Slice", start |-> <<>>,
                             end |-> SliceEnd(toks, p2)]))
             ELSE IF Check(toks, p1, "Minus")
             THEN IF Check(toks, p2, "Number")
                  THEN ExpectRBracket(toks, Advance(toks, p2),
                           Index([type |-> "Single",
                                  n |-> 0 - Current(toks, p2).val]))
                  ELSE filter_after_index(toks, p2)
             ELSE filter_after_index(toks, p1)

\* parse_index_or_filter
parse_index_or_filter(toks, pos) ==
    LET r == parse_filter_or_index(toks, pos)
    IN  IF ~r.ok THEN r
        ELSE IF r.expr.variant = "Index" THEN Ok(r.expr.op, r.pos)
        ELSE Err("InvalidFilter: expected index, got filter", pos)

\* The second argument of the synthetic `_index` call for an index.
IndexArgument(index) ==
    CASE index.type = "Single" -> LitNumber(index.n)
      [] index.type = "Slice" ->
             [type |-> "Array",
              elements |-> <<IF index.start = <<>> THEN LitNull
                             ELSE LitNumber(index.start[1]),
                             IF index.end = <<>> THEN LitNull
                             ELSE LitNumber(index.end[1])>>]
      [] index.type = "Iterate" -> LitNull

\* The filters and index of an element selector (parse_primary_expr's
\* `while p.check(&TokenKind::LBracket)`).
RECURSIVE element_filters_loop(_, _, _, _)
element_filters_loop(toks, kind, filters, pos) ==
    IF Check(toks, pos, "LBracket")
    THEN LET r == parse_filter_or_index(toks, pos)
         IN  IF ~r.ok THEN r
             ELSE IF r.expr.variant = "Filter"
             THEN element_filters_loop(toks, kind,
                      Append(filters, r.expr.filter), r.pos)
             ELSE Ok([type |-> "Element", kind |-> kind,
                      filters |-> filters, index |-> <<r.expr.op>>], r.pos)
    ELSE Ok([type |-> "Element", kind |-> kind, filters |-> filters,
             index |-> <<>>], pos)

RECURSIVE parse_piped_expr(_, _), piped_loop(_, _, _),
          parse_hierarchy_expr(_, _), hierarchy_loop(_, _, _),
          parse_or_expr(_, _), or_loop(_, _, _),
          parse_and_expr(_, _), and_loop(_, _, _),
          parse_equality_expr(_, _), equality_loop(_, _, _),
          parse_comparison_expr(_, _), comparison_loop(_, _, _),
          parse_alt_expr(_, _), alt_loop(_, _, _),
          parse_additive_expr(_, _), additive_loop(_, _, _),
          parse_multiplicative_expr(_, _), multiplicative_loop(_, _, _),
          parse_unary_expr(_, _), parse_postfix_expr(_, _),
          postfix_loop(_, _, _), parse_primary_expr(_, _),
          parse_function_args(_, _), function_args_loop(_, _, _),
          parse_object_literal(_, _), object_loop(_, _, _),
          parse_array_literal(_, _), array_loop(_, _, _),
          parse_conditional(_, _), conditional_else(_, _, _, _),
          ParseRule(_, _, _)

\* The loop of parse_function_args.
function_args_loop(toks, args, pos) ==
    IF Check(toks, pos, "Comma")
    THEN Only({IF ~arg.ok THEN arg
               ELSE function_args_loop(toks,
                        Append(args, ExprFrom(arg.expr)), arg.pos)
               : arg \in {ParseRule("parse_piped_expr", toks, Advance(toks, pos))}})
    ELSE Ok(args, pos)

\* parse_function_args: expr is the list of arguments.
parse_function_args(toks, pos) ==
    IF Check(toks, pos, "RParen") THEN Ok(<<>>, pos)
    ELSE Only({IF ~arg.ok THEN arg
               ELSE function_args_loop(toks, <<ExprFrom(arg.expr)>>, arg.pos)
               : arg \in {ParseRule("parse_piped_expr", toks, pos)}})

\* The loop of parse_object_literal, at the key of a pair; it ends with
\* the `}`.
object_loop(toks, pairs, pos) ==
    IF ~(Check(toks, pos, "String") \/ Check(toks, pos, "Ident"))
    THEN Err("UnexpectedToken: expected identifier, string", pos)
    ELSE IF ~Check(toks, Advance(toks, pos), "Colon")
    THEN Err("UnexpectedToken: expected :", Advance(toks, pos))
    ELSE Only({IF ~value.ok THEN value
               ELSE IF Check(toks, value.pos, "Comma")
               THEN object_loop(toks,
                        Append(pairs, <<Current(toks, pos).val,
                                        ExprFrom(value.expr)>>),
                        Advance(toks, value.pos))
               ELSE IF Check(toks, value.pos, "RBrace")
               THEN Ok([type |-> "Object",
                        pairs |-> Append(pairs, <<Current(toks, pos).val,
                                                  ExprFrom(value.expr)>>)],
                       Advance(toks, value.pos))
               ELSE Err("UnexpectedToken: expected }", value.pos)
               : value \in {ParseRule("parse_piped_expr",
                                toks, Advance(toks, Advance(toks, pos)))}})

\* parse_object_literal, from the position after `{`.
parse_object_literal(toks, pos) ==
    IF Check(toks, pos, "RBrace")
    THEN Ok([type |-> "Object", pairs |-> <<>>], Advance(toks, pos))
    ELSE object_loop(toks, <<>>, pos)

\* The loop of parse_array_literal, at an element; it ends with the `]`.
array_loop(toks, elements, pos) ==
    Only({IF ~element.ok THEN element
          ELSE IF Check(toks, element.pos, "Comma")
          THEN array_loop(toks, Append(elements, ExprFrom(element.expr)),
                          Advance(toks, element.pos))
          ELSE IF Check(toks, element.pos, "RBracket")
          THEN Ok([type |-> "Array",
                   elements |-> Append(elements, ExprFrom(element.expr))],
                  Advance(toks, element.pos))
          ELSE Err("UnexpectedToken: expected ]", element.pos)
          : element \in {ParseRule("parse_piped_expr", toks, pos)}})

\* parse_array_literal, from the position after `[`.
parse_array_literal(toks, pos) ==
    IF Check(toks, pos, "RBracket")
    THEN Ok([type |-> "Array", elements |-> <<>>], Advance(toks, pos))
    ELSE array_loop(toks, <<>>, pos)

\* Expr::Conditional; else_branch is Some(e) as <<e>>, None as <<>>.
Conditional(condition, then_branch, else_branch) ==
    [type |-> "Conditional", condition |-> condition,
     then_branch |-> then_branch, else_branch |-> else_branch]

\* parse_conditional from the `end` it requires, the else branch parsed.
conditional_end(toks, condition, then_branch, else_branch, pos) ==
    IF Check(toks, pos, "End")
    THEN Ok(Conditional(condition, then_branch, else_branch),
            Advance(toks, pos))
    ELSE Err("MissingEnd", pos)

\* parse_conditional from the optional elif/else, at the position after
\* the then branch.
conditional_else(toks, condition, then_branch, pos) ==
    IF Check(toks, pos, "Elif")
    THEN Only({IF ~nested.ok THEN nested
               ELSE conditional_end(toks, condition, then_branch,
                                    <<nested.expr>>, nested.pos)
               : nested \in {ParseRule("parse_conditional", toks, Advance(toks, pos))}})
    ELSE IF Check(toks, pos, "Else")
    THEN Only({IF ~other.ok THEN other
               ELSE conditional_end(toks, condition, then_branch,
                                    <<ExprFrom(other.expr)>>, other.pos)
               : other \in {ParseRule("parse_piped_expr", toks, Advance(toks, pos))}})
    ELSE conditional_end(toks, condition, then_branch, <<>>, pos)

\* parse_conditional, from the position after `if` or `elif`.
parse_conditional(toks, pos) ==
    Only({IF ~condition.ok THEN condition
          ELSE IF ~Check(toks, condition.pos, "Then")
          THEN Err("MissingThen", condition.pos)
          ELSE Only({IF ~then_branch.ok THEN then_branch
                     ELSE conditional_else(toks, ExprFrom(condition.expr),
                              ExprFrom(then_branch.expr), then_branch.pos)
                     : then_branch \in
                           {ParseRule("parse_piped_expr",
                                toks, Advance(toks, condition.pos))}})
          : condition \in {ParseRule("parse_piped_expr", toks, pos)}})

\* The tokens after which a lone `.` is the identity.
IdentityFollowers ==
    {"Eof", "Pipe", "Comma", "Gt", "GtGt", "RParen", "RBracket"}

\* parse_primary_expr
parse_primary_expr(toks, pos) ==
    LET kind == Current(toks, pos).kind
        val == Current(toks, pos).val
        p1 == Advance(toks, pos)
    IN  IF kind = "Dot"
        THEN IF Current(toks, p1).kind \in IdentityFollowers
             THEN Ok([type |-> "Identity"], p1)
             ELSE IF Check(toks, p1, "Ident")
             THEN IF ElementKindFromStr(Current(toks, p1).val) # ""
                  THEN element_filters_loop(toks,
                           ElementKindFromStr(Current(toks, p1).val),
                           <<>>, Advance(toks, p1))
                  ELSE Ok([type |-> "Property",
                           name |-> Current(toks, p1).val],
                          Advance(toks, p1))
             ELSE Err("UnexpectedToken: expected identifier", p1)
        ELSE IF kind = "LParen"
        THEN Only({IF ~inner.ok THEN inner
                   ELSE IF Check(toks, inner.pos, "RParen")
                   THEN Ok([type |-> "Group",
                            expr |-> ExprFrom(inner.expr)],
                           Advance(toks, inner.pos))
                   ELSE Err("UnexpectedToken: expected )", inner.pos)
                   : inner \in {ParseRule("parse_piped_expr", toks, p1)}})
        ELSE IF kind = "LBrace" THEN ParseRule("parse_object_literal", toks, p1)
        ELSE IF kind = "LBracket" THEN ParseRule("parse_array_literal", toks, p1)
        ELSE IF kind = "If" THEN ParseRule("parse_conditional", toks, p1)
        ELSE IF kind = "String" THEN Ok(LitString(val), p1)
        ELSE IF kind = "Number" THEN Ok(LitNumber(val), p1)
        ELSE IF kind = "True" THEN Ok(LitBool(TRUE), p1)
        ELSE IF kind = "False" THEN Ok(LitBool(FALSE), p1)
        ELSE IF kind = "Null" THEN Ok(LitNull, p1)
        ELSE IF kind = "Ident"
        THEN IF Check(toks, p1, "LParen")
             THEN Only({IF ~args.ok THEN args
                        ELSE IF Check(toks, args.pos, "RParen")
                        THEN Ok([type |-> "Function", name |-> val,
                                 args |-> args.expr],
                                Advance(toks, args.pos))
                        ELSE Err("UnexpectedToken: expected )", args.pos)
                        : args \in {ParseRule("parse_function_args",
                                        toks, Advance(toks, p1))}})
             ELSE Ok([type |-> "Function", name |-> val, args |-> <<>>], p1)
        ELSE Err("UnexpectedToken: expected expression", pos)

\* The loop of parse_postfix_expr: `.name` property accesses and
\* `[index]` brackets.
postfix_loop(toks, expr, pos) ==
    IF Check(toks, pos, "Dot")
    THEN Only({IF ~name.ok THEN name
               ELSE postfix_loop(toks,
                        [type |-> "Property", name |-> name.expr], name.pos)
               : name \in {parse_identifier(toks, Advance(toks, pos))}})
    ELSE IF Check(toks, pos, "LBracket")
    THEN Only({IF ~index.ok THEN index
               ELSE postfix_loop(toks,
                        IF expr.type = "Element"
                        THEN [expr EXCEPT !.index = <<index.expr>>]
                        ELSE [type |-> "Function", name |-> "_index",
                              args |-> <<expr, IndexArgument(index.expr)>>],
                        index.pos)
               : index \in {parse_index_or_filter(toks, pos)}})
    ELSE Ok(expr, pos)

\* parse_postfix_expr
parse_postfix_expr(toks, pos) ==
    Only({IF ~prim.ok THEN prim ELSE postfix_loop(toks, prim.expr, prim.pos)
          : prim \in {ParseRule("parse_primary_expr", toks, pos)}})

\* parse_unary_expr
parse_unary_expr(toks, pos) ==
    IF Check(toks, pos, "Not") \/ Check(toks, pos, "Minus")
    THEN Only({IF ~inner.ok THEN inner
               ELSE Ok([type |-> "Unary",
                        op |-> IF Check(toks, pos, "Not") THEN "Not"
                               ELSE "Neg",
                        expr |-> inner.expr], inner.pos)
               : inner \in {ParseRule("parse_unary_expr", toks, Advance(toks, pos))}})
    ELSE ParseRule("parse_postfix_expr", toks, pos)

\* The loop of parse_multiplicative_expr.
multiplicative_loop(toks, left, pos) ==
    LET kind == Current(toks, pos).kind
        op == CASE kind = "Star" -> "Mul"
                [] kind = "Slash" -> "Div"
                [] kind = "Percent" -> "Mod"
    IN  IF kind \in {"Star", "Slash", "Percent"}
        THEN Only({IF ~right.ok THEN right
                   ELSE multiplicative_loop(toks,
                            Binary(op, left, right.expr), right.pos)
                   : right \in {ParseRule("parse_unary_expr", toks, Advance(toks, pos))}})
        ELSE Ok(left, pos)

\* parse_multiplicative_expr
parse_multiplicative_expr(toks, pos) ==
    Only({IF ~left.ok THEN left
          ELSE multiplicative_loop(toks, left.expr, left.pos)
          : left \in {ParseRule("parse_unary_expr", toks, pos)}})

\* The loop of parse_additive_expr.
additive_loop(toks, left, pos) ==
    LET kind == Current(toks, pos).kind
        op == IF kind = "Plus" THEN "Add" ELSE "Sub"
    IN  IF kind \in {"Plus", "Minus"}
        THEN Only({IF ~right.ok THEN right
                   ELSE additive_loop(toks, Binary(op, left, right.expr),
                                      right.pos)
                   : right \in {ParseRule("parse_multiplicative_expr",
                                    toks, Advance(toks, pos))}})
        ELSE Ok(left, pos)

\* An additive level that recurses on its right operand instead of looping.
parse_additive_expr_right(toks, pos) ==
    Only({IF ~left.ok THEN left
          ELSE IF Current(toks, left.pos).kind \in {"Plus", "Minus"}
          THEN Only({IF ~right.ok THEN right
                     ELSE Ok(Binary(IF Check(toks, left.pos, "Plus")
                                    THEN "Add" ELSE "Sub",
                                    left.expr, right.expr), right.pos)
                     : right \in {ParseRule("parse_additive_expr",
                                      toks, Advance(toks, left.pos))}})
          ELSE left
          : left \in {ParseRule("parse_multiplicative_expr", toks, pos)}})

\* parse_additive_expr
parse_additive_expr(toks, pos) ==
    Only({IF ~left.ok THEN left
          ELSE additive_loop(toks, left.expr, left.pos)
          : left \in {ParseRule("parse_multiplicative_expr", toks, pos)}})

\* The loop of parse_alt_expr.
alt_loop(toks, left, pos) ==
    IF Check(toks, pos, "SlashSlash")
    THEN Only({IF ~right.ok THEN right
               ELSE alt_loop(toks, Binary("Alt", left, right.expr),
                             right.pos)
               : right \in {ParseRule("parse_additive_expr", toks, Advance(toks, pos))}})
    ELSE Ok(left, pos)

\* parse_alt_expr
parse_alt_expr(toks, pos) ==
    Only({IF ~left.ok THEN left ELSE alt_loop(toks, left.expr, left.pos)
          : left \in {ParseRule("parse_additive_expr", toks, pos)}})

\* A `>` that is the comparison operator unless `>` follows it.
GtIsComparisonBeforeDot(next) == next # "Gt"

\* A `>` is the comparison operator when the token after it is neither
\* `>` nor `.`.
GtIsComparison(next) == next # "Gt" /\ next # "Dot"

\* The loop of parse_comparison_expr: `>` is taken only when the token
\* after it (tokens.get(pos + 1)) is neither `>` nor `.`.
comparison_loop(toks, left, pos) ==
    LET kind == Current(toks, pos).kind
        next == IF pos + 2 <= Len(toks) THEN toks[pos + 2].kind ELSE "None"
    IN  IF IF kind = "Gt" THEN GtIsComparison(next)
           ELSE kind \in {"Lt", "Le", "Ge"}
        THEN Only({IF ~right.ok THEN right
                   ELSE comparison_loop(toks,
                            Binary(kind, left, right.expr), right.pos)
                   : right \in {ParseRule("parse_alt_expr", toks, Advance(toks, pos))}})
        ELSE Ok(left, pos)

\* parse_comparison_expr
parse_comparison_expr(toks, pos) ==
    Only({IF ~left.ok THEN left
          ELSE comparison_loop(toks, left.expr, left.pos)
          : left \in {ParseRule("parse_alt_expr", toks, pos)}})

\* The loop of parse_equality_expr.
equality_loop(toks, left, pos) ==
    LET kind == Current(toks, pos).kind
    IN  IF kind \in {"Eq", "Ne"}
        THEN Only({IF ~right.ok THEN right
                   ELSE equality_loop(toks, Binary(kind, left, right.expr),
                                      right.pos)
                   : right \in {ParseRule("parse_comparison_expr",
                                    toks, Advance(toks, pos))}})
        ELSE Ok(left, pos)

\* parse_equality_expr
parse_equality_expr(toks, pos) ==
    Only({IF ~left.ok THEN left
          ELSE equality_loop(toks, left.expr, left.pos)
          : left \in {ParseRule("parse_comparison_expr", toks, pos)}})

\* The loop of parse_and_expr.
and_loop(toks, left, pos) ==
    IF Check(toks, pos, "And")
    THEN Only({IF ~right.ok THEN right
               ELSE and_loop(toks, Binary("And", left, right.expr),
                             right.pos)
               : right \in {ParseRule("parse_equality_expr", toks, Advance(toks, pos))}})
    ELSE Ok(left, pos)

\* parse_and_expr
parse_and_expr(toks, pos) ==
    Only({IF ~left.ok THEN left ELSE and_loop(toks, left.expr, left.pos)
          : left \in {ParseRule("parse_equality_expr", toks, pos)}})

\* The loop of parse_or_expr.
or_loop(toks, left, pos) ==
    IF Check(toks, pos, "Or")
    THEN Only({IF ~right.ok THEN right
               ELSE or_loop(toks, Binary("Or", left, right.expr), right.pos)
               : right \in {ParseRule("parse_and_expr", toks, Advance(toks, pos))}})
    ELSE Ok(left, pos)

\* parse_or_expr
parse_or_expr(toks, pos) ==
    Only({IF ~left.ok THEN left ELSE or_loop(toks, left.expr, left.pos)
          : left \in {ParseRule("parse_and_expr", toks, pos)}})

\* The loop of parse_hierarchy_expr.
hierarchy_loop(toks, expr, pos) ==
    IF Check(toks, pos, "GtGt") \/ Check(toks, pos, "Gt")
    THEN Only({IF ~child.ok THEN child
               ELSE hierarchy_loop(toks,
                        [type |-> "Hierarchy", parent |-> expr,
                         child |-> child.expr,
                         direct |-> Check(toks, pos, "Gt")], child.pos)
               : child \in {ParseRule("parse_or_expr", toks, Advance(toks, pos))}})
    ELSE Ok(expr, pos)

\* parse_hierarchy_expr
parse_hierarchy_expr(toks, pos) ==
    Only({IF ~first.ok THEN first
          ELSE hierarchy_loop(toks, first.expr, first.pos)
          : first \in {ParseRule("parse_or_expr", toks, pos)}})

\* The loop of parse_piped_expr; expr is the list of stages so far.
piped_loop(toks, stages, pos) ==
    IF Check(toks, pos, "Pipe")
    THEN Only({IF ~stage.ok THEN stage
               ELSE piped_loop(toks, Append(stages, stage.expr), stage.pos)
               : stage \in {ParseRule("parse_hierarchy_expr", toks, Advance(toks, pos))}})
    ELSE Ok(stages, pos)

\* parse_piped_expr: expr is the PipedExpr's list of stages.
parse_piped_expr(toks, pos) ==
    Only({IF ~first.ok THEN first
          ELSE piped_loop(toks, <<first.expr>>, first.pos)
          : first \in {ParseRule("parse_hierarchy_expr", toks, pos)}})

\* self.parse_*(): the call of one of the parser's mutually recursive methods.
ParseRule(rule, toks, pos) ==
    CASE rule = "parse_piped_expr" -> parse_piped_expr(toks, pos)
      [] rule = "parse_hierarchy_expr" -> parse_hierarchy_expr(toks, pos)
      [] rule = "parse_or_expr" -> parse_or_expr(toks, pos)
      [] rule = "parse_and_expr" -> parse_and_expr(toks, pos)
      [] rule = "parse_equality_expr" -> parse_equality_expr(toks, pos)
      [] rule = "parse_comparison_expr" -> parse_comparison_expr(toks, pos)
      [] rule = "parse_alt_expr" -> parse_alt_expr(toks, pos)
      [] rule = "parse_additive_expr" -> parse_additive_expr(toks, pos)
      [] rule = "parse_multiplicative_expr" -> parse_multiplicative_expr(toks, pos)
      [] rule = "parse_unary_expr" -> parse_unary_expr(toks, pos)
      [] rule = "parse_postfix_expr" -> parse_postfix_expr(toks, pos)
      [] rule = "parse_primary_expr" -> parse_primary_expr(toks, pos)
      [] rule = "parse_function_args" -> parse_function_args(toks, pos)
      [] rule = "parse_object_literal" -> parse_object_literal(toks, pos)
      [] rule = "parse_array_literal" -> parse_array_literal(toks, pos)
      [] rule = "parse_conditional" -> parse_conditional(toks, pos)

\* The loop of parse_query; expr is the list of piped expressions so far.
RECURSIVE query_loop(_, _, _)
query_loop(toks, expressions, pos) ==
    IF Check(toks, pos, "Comma")
    THEN Only({IF ~piped.ok THEN piped
               ELSE query_loop(toks, Append(expressions, piped.expr),
                               piped.pos)
               : piped \in {parse_piped_expr(toks, Advance(toks, pos))}})
    ELSE Ok(expressions, pos)

\* parse / parse_query: expr is the Query's list of PipedExpr.
parse(toks) ==
    Only({IF ~all.ok THEN all
          ELSE IF ~IsAtEnd(toks, all.pos)
          THEN Err("UnexpectedToken: expected end of query", all.pos)
          ELSE all
          : all \in {Only({IF first.ok
                           THEN query_loop(toks, <<first.expr>>, first.pos)
                           ELSE first
                           : first \in {parse_piped_expr(toks, 0)}})}})

(***************************************************************************)
(* Queries of the shape `a op1 b op2 c`.                                   *)
(***************************************************************************)

\* The tokens of the binary operators.
BinaryOpTokens ==
    {"Or", "And", "Eq", "Ne", "Lt", "Le", "Gt", "Ge", "SlashSlash", "Plus",
     "Minus", "Star", "Slash", "Percent"}

\* The BinaryOp the parser builds for an operator token.
BinaryOpOf(kind) ==
    CASE kind = "SlashSlash" -> "Alt"
      [] kind = "Plus" -> "Add"
      [] kind = "Minus" -> "Sub"
      [] kind = "Star" -> "Mul"
      [] kind = "Slash" -> "Div"
      [] kind = "Percent" -> "Mod"
      [] OTHER -> kind

\* The operands: a number literal, a property selector `.name`, a lone `.`.
OperandKinds == {"number", "property", "identity"}

\* The tokens of the operand of a kind at position n of the query.
OperandTokens(kind, n) ==
    CASE kind = "number" -> <<Tok("Number", n)>>
      [] kind = "property" -> <<Tok("Dot", ""), Tok("Ident", n)>>
      [] kind = "identity" -> <<Tok("Dot", "")>>

PrecInit ==
    /\ \E a \in OperandKinds, b \in OperandKinds, c \in OperandKinds,
          op1 \in BinaryOpTokens, op2 \in BinaryOpTokens :
           prs = [pc |-> "input", a |-> a, op1 |-> op1, b |-> b,
                  op2 |-> op2, c |-> c,
                  tokens |-> OperandTokens(a, "a") \o <<Tok(op1, "")>>
                             \o OperandTokens(b, "b") \o <<Tok(op2, "")>>
                             \o OperandTokens(c, "c") \o <<Tok("Eof", "")>>,
                  result |-> Err("", 0)]
    /\ lev = Idle /\ slug = Idle /\ reg = Idle /\ tree = Idle /\ sect = Idle
    /\ fnc = Idle /\ cnt = Idle

\* parse(tokens)
ParseQuery ==
    /\ prs.pc = "input"
    /\ prs' = [prs EXCEPT !.pc = "done", !.result = parse(prs.tokens)]
    /\ UNCHANGED <<lev, slug, reg, tree, sect, fnc, cnt>>

SpecPrec == PrecInit /\ [][ParseQuery]_vars

\* The expression an operand stands for.
OperandExpr(kind, n) ==
    CASE kind = "number" -> LitNumber(n)
      [] kind = "property" -> [type |-> "Property", name |-> n]
      [] kind = "identity" -> [type |-> "Identity"]

\* The grouping the precedence table asks for: (a op1 b) op2 c when
\* precedence(op1) >= precedence(op2), a op1 (b op2 c) otherwise.
GroupedByPrecedence ==
    LET a == OperandExpr(prs.a, "a")
        b == OperandExpr(prs.b, "b")
        c == OperandExpr(prs.c, "c")
        o1 == BinaryOpOf(prs.op1)
        o2 == BinaryOpOf(prs.op2)
    IN  IF precedence(o1) >= precedence(o2)
        THEN Binary(o2, Binary(o1, a, b), c)
        ELSE Binary(o1, a, Binary(o2, b, c))

\* The query parsed to the single expression e.
ParsedTo(e) == prs.result.ok /\ prs.result.expr = <<<<e>>>>

GtBeforeDot ==
    \/ prs.op1 = "Gt" /\ prs.b # "number"
    \/ prs.op2 = "Gt" /\ prs.c # "number"

\* A lone `.` directly before an operator token other than `>`.
LoneDotBeforeOperator ==
    \/ prs.a = "identity" /\ prs.op1 # "Gt"
    \/ prs.b = "identity" /\ prs.op2 # "Gt"

MaxElifs == 2
MaxEnds == 3

\* The names of the conditions and of the branches, and the else branch.
CondNames == <<"c1", "c2", "c3", "c4">>
BranchNames == <<"a1", "a2", "a3", "a4">>
ElseName == "d"

\* The tokens of an operand: a number literal, a property selector, a bare
\* function name.
CondOperandKinds == {"number", "property", "function"}
CondOperandTokens(kind, i, names) ==
    CASE kind = "number" -> <<Tok("Number", i)>>
      [] kind = "property" -> <<Tok("Dot", ""), Tok("Ident", names[i])>>
      [] kind = "function" -> <<Tok("Ident", names[i])>>

\* The expression an operand stands for.
CondOperandExpr(kind, i, names) ==
    CASE kind = "number" -> LitNumber(i)
      [] kind = "property" -> [type |-> "Property", name |-> names[i]]
      [] kind = "function" ->
             [type |-> "Function", name |-> names[i], args |-> <<>>]

\* The tokens `elif Ci then Ai` for i = from .. upto.
RECURSIVE ElifTokens(_, _, _, _)
ElifTokens(cond, branch, from, upto) ==
    IF from > upto THEN <<>>
    ELSE <<Tok("Elif", "")>> \o CondOperandTokens(cond, from, CondNames)
         \o <<Tok("Then", "")>>
         \o CondOperandTokens(branch, from, BranchNames)
         \o ElifTokens(cond, branch, from + 1, upto)

\* n `end` tokens.
EndTokens(n) == [i \in 1..n |-> Tok("End", "")]

CondInit ==
    /\ \E elifs \in 0..MaxElifs, has_else \in BOOLEAN, ends \in 1..MaxEnds,
          cond \in {"number", "property"}, branch \in CondOperandKinds :
           prs = [pc |-> "input", elifs |-> elifs, has_else |-> has_else,
                  ends |-> ends, cond |-> cond, branch |-> branch,
                  tokens |-> <<Tok("If", "")>>
                             \o CondOperandTokens(cond, 1, CondNames)
                             \o <<Tok("Then", "")>>
                             \o CondOperandTokens(branch, 1, BranchNames)
                             \o ElifTokens(cond, branch, 2, elifs + 1)
                             \o (IF has_else
                                 THEN <<Tok("Else", ""), Tok("Ident", ElseName)>>
                                 ELSE <<>>)
                             \o EndTokens(ends) \o <<Tok("Eof", "")>>,
                  result |-> Err("", 0)]
    /\ lev = Idle /\ slug = Idle /\ reg = Idle /\ tree = Idle /\ sect = Idle
    /\ fnc = Idle /\ cnt = Idle

SpecCond == CondInit /\ [][ParseQuery]_vars

\* The conditional the grammar gives the branches from the i-th on: the
\* elif branches nest in the else branch, the final else is innermost.
RECURSIVE NestedConditional(_)
NestedConditional(i) ==
    Conditional(CondOperandExpr(prs.cond, i, CondNames),
                CondOperandExpr(prs.branch, i, BranchNames),
                IF i <= prs.elifs THEN <<NestedConditional(i + 1)>>
                ELSE IF prs.has_else
                THEN <<[type |-> "Function", name |-> ElseName,
                        args |-> <<>>]>>
                ELSE <<>>)

\* C11: a conditional with elif branches is closed by a single `end`: with
\* exactly one `end` token it parses to the nested Conditional, and with
\* more than one it does not parse.
C11_ElifClosedBySingleEnd ==
    (prs.pc = "done" /\ prs.elifs >= 1)
        => /\ prs.result.ok <=> prs.ends = 1
           /\ prs.ends = 1 => ParsedTo(NestedConditional(1))

(***************************************************************************)
(* Queries with a lone `.`: the `.` inside a context, followed by a        *)
(* continuation of the expression.                                         *)
(***************************************************************************)

\* What follows the lone `.`: nothing, a pipe stage, a hierarchy child, the
\* right operand of a binary operator, an index bracket.
DotFollows ==
    {"none", "pipe", "hierarchy", "descendant", "index", "iterate"}
        \cup (BinaryOpTokens \ {"Gt"})

\* The tokens that follow the lone `.`.
DotFollowTokens(follow) ==
    CASE follow = "none" -> <<>>
      [] follow = "pipe" ->
             <<Tok("Pipe", ""), Tok("Dot", ""), Tok("Ident", "x")>>
      [] follow = "hierarchy" ->
             <<Tok("Gt", ""), Tok("Dot", ""), Tok("Ident", "x")>>
      [] follow = "descendant" ->
             <<Tok("GtGt", ""), Tok("Dot", ""), Tok("Ident", "x")>>
      [] follow = "index" ->
             <<Tok("LBracket", ""), Tok("Number", 0), Tok("RBracket", "")>>
      [] follow = "iterate" -> <<Tok("LBracket", ""), Tok("RBracket", "")>>
      [] OTHER -> <<Tok(follow, ""), Tok("Number", 1)>>

\* The pipe stages the grammar gives `.` and what follows it.
DotFollowStages(follow) ==
    LET identity == [type |-> "Identity"]
        x == [type |-> "Property", name |-> "x"]
    IN  CASE follow = "none" -> <<identity>>
          [] follow = "pipe" -> <<identity, x>>
          [] follow = "hierarchy" ->
                 <<[type |-> "Hierarchy", parent |-> identity, child |-> x,
                    direct |-> TRUE]>>
          [] follow = "descendant" ->
                 <<[type |-> "Hierarchy", parent |-> identity, child |-> x,
                    direct |-> FALSE]>>
          [] follow = "index" ->
                 <<[type |-> "Function", name |-> "_index",
                    args |-> <<identity, LitNumber(0)>>]>>
          [] follow = "iterate" ->
                 <<[type |-> "Function", name |-> "_index",
                    args |-> <<identity, LitNull>>]>>
          [] OTHER -> <<Binary(BinaryOpOf(follow), identity, LitNumber(1))>>

\* The contexts of the expression that begins with the lone `.`.
DotContexts ==
    {"query", "group", "array", "object", "call", "condition", "then",
     "then_else", "else"}

\* The tokens before the expression in a context.
DotContextBefore(context) ==
    CASE context = "query" -> <<>>
      [] context = "group" -> <<Tok("LParen", "")>>
      [] context = "array" -> <<Tok("LBracket", "")>>
      [] context = "object" ->
             <<Tok("LBrace", ""), Tok("Ident", "k"), Tok("Colon", "")>>
      [] context = "call" -> <<Tok("Ident", "f"), Tok("LParen", "")>>
      [] context = "condition" -> <<Tok("If", "")>>
      [] context \in {"then", "then_else"} ->
             <<Tok("If", ""), Tok("Number", 1), Tok("Then", "")>>
      [] context = "else" ->
             <<Tok("If", ""), Tok("Number", 1), Tok("Then", ""),
               Tok("Number", 2), Tok("Else", "")>>

\* The tokens after the expression in a context.
DotContextAfter(context) ==
    CASE context = "query" -> <<>>
      [] context \in {"group", "call"} -> <<Tok("RParen", "")>>
      [] context = "array" -> <<Tok("RBracket", "")>>
      [] context = "object" -> <<Tok("RBrace", "")>>
      [] context = "condition" ->
             <<Tok("Then", ""), Tok("Number", 2), Tok("End", "")>>
      [] context \in {"then", "else"} -> <<Tok("End", "")>>
      [] context = "then_else" ->
             <<Tok("Else", ""), Tok("Number", 2), Tok("End", "")>>

\* The pipe stages of the query: the expression e in its context.
DotContextStages(context, stages) ==
    LET e == ExprFrom(stages)
    IN  CASE context = "query" -> stages
          [] context = "group" -> <<[type |-> "Group", expr |-> e]>>
          [] context = "array" -> <<[type |-> "Array", elements |-> <<e>>]>>
          [] context = "object" ->
                 <<[type |-> "Object", pairs |-> <<<<"k", e>>>>]>>
          [] context = "call" ->
                 <<[type |-> "Function", name |-> "f", args |-> <<e>>]>>
          [] context = "condition" ->
                 <<Conditional(e, LitNumber(2), <<>>)>>
          [] context = "then" -> <<Conditional(LitNumber(1), e, <<>>)>>
          [] context = "then_else" ->
                 <<Conditional(LitNumber(1), e, <<LitNumber(2)>>)>>
          [] context = "else" ->
                 <<Conditional(LitNumber(1), LitNumber(2), <<e>>)>>

DotInit ==
    /\ \E context \in DotContexts, follow \in DotFollows :
           prs = [pc |-> "input", context |-> context, follow |-> follow,
                  tokens |-> DotContextBefore(context) \o <<Tok("Dot", "")>>
                             \o DotFollowTokens(follow)
                             \o DotContextAfter(context)
                             \o <<Tok("Eof", "")>>,
                  result |-> Err("", 0)]
    /\ lev = Idle /\ slug = Idle /\ reg = Idle /\ tree = Idle /\ sect = Idle
    /\ fnc = Idle /\ cnt = Idle

SpecDot == DotInit /\ [][ParseQuery]_vars

\* The query parsed to the one piped expression with the given stages.
ParsedToStages(stages) == prs.result.ok /\ prs.result.expr = <<stages>>

\* C12: a `.` that no identifier follows parses to Expr::Identity whatever
\* token follows it; the query is never rejected because of that token.
C12_LoneDotIsIdentity ==
    prs.pc = "done"
        => ParsedToStages(DotContextStages(prs.context,
                                           DotFollowStages(prs.follow)))

(***************************************************************************)
(* The lexer, on the characters of signed integer arithmetic.              *)
(***************************************************************************)

\* char::is_ascii_digit
IsAsciiDigit(c) == c \in {"0", "1", "2", "3", "4", "5", "6", "7", "8", "9"}

\* The value of a digit.
DigitValue(c) ==
    CASE c = "0" -> 0 [] c = "1" -> 1 [] c = "2" -> 2 [] c = "3" -> 3
      [] c = "4" -> 4 [] c = "5" -> 5 [] c = "6" -> 6 [] c = "7" -> 7
      [] c = "8" -> 8 [] c = "9" -> 9

\* The value of a string of digits.
RECURSIVE DigitsValue(_)
DigitsValue(digits) ==
    IF digits = <<>> THEN 0
    ELSE 10 * DigitsValue(SubSeq(digits, 1, Len(digits) - 1))
         + DigitValue(digits[Len(digits)])

\* str::parse::<f64> on the text read_number collects: the value of an
\* integer literal; any other text stands for itself.
ParseNumber(num_str) ==
    LET digits == IF num_str[1] = "-" THEN Tail(num_str) ELSE num_str
    IN  IF digits # <<>> /\ \A i \in 1..Len(digits) : IsAsciiDigit(digits[i])
        THEN IF num_str[1] = "-" THEN 0 - DigitsValue(digits)
             ELSE DigitsValue(digits)
        ELSE num_str

\* The loop of read_number: the text of the number, from the characters
\* num_str read so far and the next position pos.
RECURSIVE read_number_loop(_, _, _)
read_number_loop(input, num_str, pos) ==
    IF pos > Len(input) THEN [num_str |-> num_str, pos |-> pos]
    ELSE LET c == input[pos]
         IN  IF IsAsciiDigit(c) \/ c \in {".", "e", "E", "-", "+"}
             THEN IF c \in {"-", "+"}
                     /\ num_str[Len(num_str)] \notin {"e", "E"}
                  THEN [num_str |-> num_str, pos |-> pos]
                  ELSE read_number_loop(input, Append(num_str, c), pos + 1)
             ELSE [num_str |-> num_str, pos |-> pos]

\* read_number: the token and the position after it.
read_number(input, first_char, pos) ==
    LET r == read_number_loop(input, <<first_char>>, pos)
    IN  [token |-> Tok("Number", ParseNumber(r.num_str)), pos |-> r.pos]

\* skip_whitespace: the position of the next character that is no space.
RECURSIVE skip_whitespace(_, _)
skip_whitespace(input, pos) ==
    IF pos <= Len(input) /\ IsWhitespace(input[pos])
    THEN skip_whitespace(input, pos + 1)
    ELSE pos

\* next_token, from the position pos of the next character: the token and
\* the position after it, or the error.
next_token(input, pos) ==
    LET start == skip_whitespace(input, pos)
        c == input[start]
        after == start + 1
    IN  IF start > Len(input)
        THEN [ok |-> TRUE, token |-> Tok("Eof", ""), pos |-> start]
        ELSE IF c = "+"
        THEN [ok |-> TRUE, token |-> Tok("Plus", ""), pos |-> after]
        ELSE IF c = "*"
        THEN [ok |-> TRUE, token |-> Tok("Star", ""), pos |-> after]
        ELSE IF c = "-"
        THEN IF after <= Len(input) /\ IsAsciiDigit(input[after])
             THEN [ok |-> TRUE] @@ read_number(input, "-", after)
             ELSE [ok |-> TRUE, token |-> Tok("Minus", ""), pos |-> after]
        ELSE IF IsAsciiDigit(c)
        THEN [ok |-> TRUE] @@ read_number(input, c, after)
        ELSE [ok |-> FALSE, error |-> "UnexpectedChar", pos |-> start]

\* The loop of tokenize: the tokens from position pos on, after tokens.
RECURSIVE tokenize_loop(_, _, _)
tokenize_loop(input, tokens, pos) ==
    LET t == next_token(input, pos)
    IN  IF ~t.ok THEN Err(t.error, t.pos)
        ELSE IF t.token.kind = "Eof" THEN Ok(Append(tokens, t.token), t.pos)
        ELSE tokenize_loop(input, Append(tokens, t.token), t.pos)

\* tokenize: expr is the list of tokens.
tokenize(input) == tokenize_loop(input, <<>>, 1)

\* parse_str: tokenize, then parse.
parse_str(s) ==
    LET tokens == tokenize(s)
    IN  IF ~tokens.ok THEN tokens ELSE parse(tokens.expr)

(***************************************************************************)
(* Queries of digits, signs and spaces.                                    *)
(***************************************************************************)

MaxQueryLen == 5
QueryChars == {"1", "2", "-", "+", " "}

MinusInit ==
    /\ \E s \in Texts(QueryChars, MaxQueryLen) :
           prs = [pc |-> "input", source |-> s, result |-> Err("", 0)]
    /\ lev = Idle /\ slug = Idle /\ reg = Idle /\ tree = Idle /\ sect = Idle
    /\ fnc = Idle /\ cnt = Idle

\* parse_str(source)
ParseStr ==
    /\ prs.pc = "input"
    /\ prs' = [prs EXCEPT !.pc = "done", !.result = parse_str(prs.source)]
    /\ UNCHANGED <<lev, slug, reg, tree, sect, fnc, cnt>>

SpecMinus == MinusInit /\ [][ParseStr]_vars

\* The text of a number literal: digits only.
IsNumberText(s) == s # <<>> /\ \A i \in 1..Len(s) : IsAsciiDigit(s[i])

\* C13: after a complete operand a `-` followed by a digit is the binary
\* subtraction operator: for number literals a and b the query `a-b`
\* parses to Binary{Sub, a, b}.
C13_MinusAfterOperandIsSub ==
    \A k \in 1..Len(prs.source) :
        LET a == SubSeq(prs.source, 1, k - 1)
            b == SubSeq(prs.source, k + 1, Len(prs.source))
        IN  (prs.pc = "done" /\ prs.source[k] = "-"
                /\ IsNumberText(a) /\ IsNumberText(b))
                => ParsedTo(Binary("Sub", LitNumber(DigitsValue(a)),
                                   LitNumber(DigitsValue(b))))

(***************************************************************************)
(* Queries of the shape `a op1 b op2 c` with `>` and `>>` among the        *)
(* operators; the middle operand may be absent.                            *)
(***************************************************************************)

HierOpTokens == {"Gt", "GtGt", "Lt", "Ge", "Eq", "Plus", "Or"}
HierOperandKinds == {"number", "property", "identity"}
HierNames == <<"a", "b", "c">>

\* The tokens of the i-th operand.
HierOperandTokens(kind, i) ==
    CASE kind = "absent" -> <<>>
      [] kind = "identity" -> <<Tok("Dot", "")>>
      [] OTHER -> CondOperandTokens(kind, i, HierNames)

HierInit ==
    /\ \E a \in HierOperandKinds, b \in HierOperandKinds \cup {"absent"},
          c \in HierOperandKinds, op1 \in HierOpTokens, op2 \in HierOpTokens :
           prs = [pc |-> "input", a |-> a, op1 |-> op1, b |-> b,
                  op2 |-> op2, c |-> c,
                  tokens |-> HierOperandTokens(a, 1) \o <<Tok(op1, "")>>
                             \o HierOperandTokens(b, 2) \o <<Tok(op2, "")>>
                             \o HierOperandTokens(c, 3) \o <<Tok("Eof", "")>>,
                  result |-> Err("", 0)]
    /\ lev = Idle /\ slug = Idle /\ reg = Idle /\ tree = Idle /\ sect = Idle
    /\ fnc = Idle /\ cnt = Idle

SpecHier == HierInit /\ [][ParseQuery]_vars

\* The nodes of an expression of binary and hierarchy operators.
RECURSIVE Nodes(_)
Nodes(e) ==
    <<e>> \o (CASE e.type = "Binary" -> Nodes(e.left) \o Nodes(e.right)
                [] e.type = "Hierarchy" -> Nodes(e.parent) \o Nodes(e.child)
                [] OTHER -> <<>>)

\* The number of Binary{Gt} nodes and of Hierarchy{direct} nodes.
CountGt(nodes) ==
    Cardinality({i \in 1..Len(nodes) :
        nodes[i].type = "Binary" /\ nodes[i].op = "Gt"})
CountHierarchy(nodes, direct) ==
    Cardinality({i \in 1..Len(nodes) :
        nodes[i].type = "Hierarchy" /\ nodes[i].direct = direct})

\* The number of tokens of a kind whose next token is of one of the kinds
\* in nexts (when member), or of none of them (when not).
CountTokens(toks, kind, nexts, member) ==
    Cardinality({i \in 1..(Len(toks) - 1) :
        toks[i].kind = kind /\ ((toks[i + 1].kind \in nexts) <=> member)})

\* C14: in a query that parses, each `>` whose next token is neither `>`
\* nor `.` is a Binary{Gt} node and no other `>` is; each `>` followed by
\* `.` is a Hierarchy{direct = true} node and each `>>` a
\* Hierarchy{direct = false} node.
C14_GtIsComparisonUnlessHierarchy ==
    (prs.pc = "done" /\ prs.result.ok)
        => LET nodes == Nodes(prs.result.expr[1][1])
           IN  /\ Len(prs.result.expr) = 1 /\ Len(prs.result.expr[1]) = 1
               /\ CountGt(nodes)
                      = CountTokens(prs.tokens, "Gt", {"Gt", "Dot"}, FALSE)
               /\ CountHierarchy(nodes, TRUE)
                      = CountTokens(prs.tokens, "Gt", {"Dot"}, TRUE)
               /\ CountHierarchy(nodes, FALSE)
                      = CountTokens(prs.tokens, "GtGt", {}, FALSE)
               /\ CountTokens(prs.tokens, "Gt", {"Gt"}, TRUE) = 0

\* `1 > 2 > .c`: the first `>` compares, the second is the hierarchy
\* operator, (1 > 2) > .c.
C14_Witness ==
    /\ prs.pc = "done"
    /\ prs.op1 = "Gt" /\ prs.op2 = "Gt"
    /\ prs.a = "number" /\ prs.b = "number" /\ prs.c = "property"
    /\ ParsedTo([type |-> "Hierarchy",
                 parent |-> Binary("Gt", LitNumber(1), LitNumber(2)),
                 child |-> [type |-> "Property", name |-> "c"],
                 direct |-> TRUE])

(***************************************************************************)
(* Brackets: `[` content `]` with a content of a few tokens.               *)
(***************************************************************************)

MaxBracketTokens == 3

\* The tokens of the content of a bracket.
BracketTokens ==
    {Tok("Number", 1), Tok("Number", 2), Tok("Colon", ""), Tok("Minus", ""),
     Tok("String", "s"), Tok("Regex", "r"), Tok("Ident", "foo"),
     Tok("Ident", "anchor"), Tok("Dot", "")}

\* The sequences of at most n elements of S.
SeqsUpTo(S, n) == UNION {[1..k -> S] : k \in 0..n}

BracketInit ==
    /\ \E content \in SeqsUpTo(BracketTokens, MaxBracketTokens) :
           prs = [pc |-> "input", content |-> content,
                  tokens |-> <<Tok("LBracket", "")>> \o content
                             \o <<Tok("RBracket", ""), Tok("Eof", "")>>,
                  result |-> Err("", 0)]
    /\ lev = Idle /\ slug = Idle /\ reg = Idle /\ tree = Idle /\ sect = Idle
    /\ fnc = Idle /\ cnt = Idle

\* parse_filter_or_index at the `[`
ParseBracket ==
    /\ prs.pc = "input"
    /\ prs' = [prs EXCEPT !.pc = "done",
                          !.result = parse_filter_or_index(prs.tokens, 0)]
    /\ UNCHANGED <<lev, slug, reg, tree, sect, fnc, cnt>>

SpecBracket == BracketInit /\ [][ParseBracket]_vars

\* The kinds of the tokens of a content.
Kinds(content) == [i \in 1..Len(content) |-> content[i].kind]

\* The classification of the content of a bracket: <<item>> for the
\* contents that are an index or a filter, <<>> for every other content.
BracketClass(content) ==
    LET kinds == Kinds(content)
    IN  CASE kinds = <<>> -> <<Index([type |-> "Iterate"])>>
          [] kinds = <<"Number">> ->
                 <<Index([type |-> "Single", n |-> content[1].val])>>
          [] kinds = <<"Number", "Colon">> ->
                 <<Index([type |-> "Slice", start |-> <<content[1].val>>,
                          end |-> <<>>])>>
          [] kinds = <<"Number", "Colon", "Number">> ->
                 <<Index([type |-> "Slice", start |-> <<content[1].val>>,
                          end |-> <<content[3].val>>])>>
          [] kinds = <<"Colon">> ->
                 <<Index([type |-> "Slice", start |-> <<>>, end |-> <<>>])>>
          [] kinds = <<"Colon", "Number">> ->
                 <<Index([type |-> "Slice", start |-> <<>>,
                          end |-> <<content[2].val>>])>>
          [] kinds = <<"Minus", "Number">> ->
                 <<Index([type |-> "Single", n |-> 0 - content[2].val])>>
          [] kinds = <<"String">> ->
                 <<Filter([type |-> "Text", pattern |-> content[1].val,
                           exact |-> TRUE])>>
          [] kinds = <<"Regex">> ->
                 <<Filter([type |-> "Regex", pattern |-> content[1].val])>>
          [] kinds = <<"Ident">> ->
                 <<Filter(IF content[1].val \in LinkTypeNames
                          THEN [type |-> "Type", type_name |-> content[1].val]
                          ELSE [type |-> "Text", pattern |-> content[1].val,
                                exact |-> FALSE])>>
          [] OTHER -> <<>>

\* The errors of a rejected bracket.
BracketErrors ==
    {"InvalidFilter: expected filter pattern or index",
     "UnexpectedToken: expected ]"}

\* C15: parse_filter_or_index gives every content its classification and
\* rejects every other content with an InvalidFilter or UnexpectedToken
\* error.
C15_BracketClassification ==
    prs.pc = "done"
        => IF BracketClass(prs.content) # <<>>
           THEN /\ prs.result.ok
                /\ prs.result.expr = BracketClass(prs.content)[1]
                /\ prs.result.pos = Len(prs.content) + 2
           ELSE ~prs.result.ok /\ prs.result.error \in BracketErrors

(***************************************************************************)
(* Values (query/value.rs) and the built-in functions any and all          *)
(* (query/builtins/mod.rs).                                                *)
(***************************************************************************)

\* Value::Null, Value::Bool, Value::Number, Value::String, Value::Array
VNull == [kind |-> "Null"]
VBool(b) == [kind |-> "Bool", b |-> b]
VNumber(n) == [kind |-> "Number", n |-> n]
VString(s) == [kind |-> "String", s |-> s]
VArray(a) == [kind |-> "Array", a |-> a]

\* Value::is_truthy
is_truthy(v) ==
    CASE v.kind = "Null" -> FALSE
      [] v.kind = "Bool" -> v.b
      [] v.kind = "Number" -> v.n # 0
      [] v.kind = "String" -> v.s # ""
      [] v.kind = "Array" -> v.a # <<>>
      [] OTHER -> TRUE

\* args.first().unwrap_or(&Value::Null), args.get(1).unwrap_or(default)
ArgOr(args, i, default) == IF i <= Len(args) THEN args[i] ELSE default

\* fn_any
fn_any(args) ==
    LET input == ArgOr(args, 1, VNull)
        condition == ArgOr(args, 2, VBool(FALSE))
    IN  <<VBool(IF input.kind = "Array"
                THEN \E i \in 1..Len(input.a) : is_truthy(input.a[i])
                ELSE is_truthy(condition))>>

\* fn_all
fn_all(args) ==
    LET input == ArgOr(args, 1, VNull)
    IN  <<VBool(IF input.kind = "Array"
                THEN \A i \in 1..Len(input.a) : is_truthy(input.a[i])
                ELSE is_truthy(input))>>

MaxArrayLen == 2

\* The elements of the input arrays.
ElemValues == {VNull, VBool(TRUE), VNumber(0), VNumber(2), VString("a")}

\* The conditions: `.`, `. == 2`, `not .`.
Conditions == {"identity", "equals_two", "not"}

\* The call `input | name(condition)`: args[0] is the input, args[1] the
\* value the evaluator passes for the condition argument.
AnyAllInit ==
    /\ \E name \in {"any", "all"}, condition \in Conditions,
          input \in ElemValues
                    \cup {VArray(a) : a \in SeqsUpTo(ElemValues, MaxArrayLen)},
          value \in {VNull, VBool(FALSE), VBool(TRUE)} :
           fnc = [pc |-> "call", name |-> name, condition |-> condition,
                  args |-> <<input, value>>, result |-> <<>>]
    /\ lev = Idle /\ slug = Idle /\ reg = Idle /\ tree = Idle /\ sect = Idle
    /\ prs = Idle /\ cnt = Idle

\* Function::call of fn_any
CallAny ==
    /\ fnc.pc = "call" /\ fnc.name = "any"
    /\ fnc' = [fnc EXCEPT !.pc = "done", !.result = fn_any(fnc.args)]
    /\ UNCHANGED <<lev, slug, reg, tree, sect, prs, cnt>>

\* Function::call of fn_all
CallAll ==
    /\ fnc.pc = "call" /\ fnc.name = "all"
    /\ fnc' = [fnc EXCEPT !.pc = "done", !.result = fn_all(fnc.args)]
    /\ UNCHANGED <<lev, slug, reg, tree, sect, prs, cnt>>

AnyAllNext == CallAny \/ CallAll

SpecAnyAll == AnyAllInit /\ [][AnyAllNext]_vars

\* The condition holds for the element v.
ConditionHolds(condition, v) ==
    CASE condition = "identity" -> is_truthy(v)
      [] condition = "equals_two" -> v = VNumber(2)
      [] condition = "not" -> ~is_truthy(v)

\* C16: on an input array any(cond) is true iff the condition holds for at
\* least one element, and all(cond) is true iff it holds for every element.
C16_AnyAllApplyCondition ==
    (fnc.pc = "done" /\ fnc.args[1].kind = "Array")
        => LET a == fnc.args[1].a
           IN  fnc.result =
                   <<VBool(IF fnc.name = "any"
                           THEN \E i \in 1..Len(a) :
                                    ConditionHolds(fnc.condition, a[i])
                           ELSE \A i \in 1..Len(a) :
                                    ConditionHolds(fnc.condition, a[i]))>>

(***************************************************************************)
(* Registry::with_builtins: the calls of register_all, one at a time, and  *)
(* a lookup in the registry they leave.                                    *)
(***************************************************************************)

\* Function::new
FunctionNew(func, arity) ==
    [func |-> func, arity |-> arity, description |-> "", takes_input |-> TRUE]

\* Function::with_takes_input
with_takes_input(function, takes) == [function EXCEPT !.takes_input = takes]

\* register_all: its register_function and register_alias calls, in order.
register_all ==
    <<[name |-> "count",
      function |-> FunctionNew("fn_count", <<0, 0>>)],
     [name |-> "length",
      function |-> FunctionNew("fn_count", <<0, 0>>)],
     [name |-> "first",
      function |-> FunctionNew("fn_first", <<0, 0>>)],
     [name |-> "last",
      function |-> FunctionNew("fn_last", <<0, 0>>)],
     [name |-> "reverse",
      function |-> FunctionNew("fn_reverse", <<0, 0>>)],
     [name |-> "sort",
      function |-> FunctionNew("fn_sort", <<0, 0>>)],
     [name |-> "unique",
      function |-> FunctionNew("fn_unique", <<0, 0>>)],
     [name |-> "flatten",
      function |-> FunctionNew("fn_flatten", <<0, 0>>)],
     [name |-> "keys",
      function |-> FunctionNew("fn_keys", <<0, 0>>)],
     [name |-> "values",
      function |-> FunctionNew("fn_values", <<0, 0>>)],
     [name |-> "empty",
      function |-> FunctionNew("fn_empty", <<0, 0>>)],
     [name |-> "text",
      function |-> FunctionNew("fn_text", <<0, 0>>)],
     [name |-> "upper",
      function |-> FunctionNew("fn_upper", <<0, 0>>)],
     [name |-> "lower",
      function |-> FunctionNew("fn_lower", <<0, 0>>)],
     [name |-> "trim",
      function |-> FunctionNew("fn_trim", <<0, 0>>)],
     [name |-> "split",
      function |-> FunctionNew("fn_split", <<1, 1>>)],
     [name |-> "join",
      function |-> FunctionNew("fn_join", <<1, 1>>)],
     [name |-> "replace",
      function |-> FunctionNew("fn_replace", <<2, 2>>)],
     [name |-> "lines",
      function |-> FunctionNew("fn_lines", <<0, 0>>)],
     [name |-> "words",
      function |-> FunctionNew("fn_words", <<0, 0>>)],
     [name |-> "chars",
      function |-> FunctionNew("fn_chars", <<0, 0>>)],
     [name |-> "slugify",
      function |-> FunctionNew("fn_slugify", <<0, 0>>)],
     [name |-> "select",
      function |-> with_takes_input(FunctionNew("fn_select", <<1, 1>>), TRUE)],
     [name |-> "contains",
      function |-> FunctionNew("fn_contains", <<1, 1>>)],
     [name |-> "startswith",
      function |-> FunctionNew("fn_startswith", <<1, 1>>)],
     [name |-> "endswith",
      function |-> FunctionNew("fn_endswith", <<1, 1>>)],
     [name |-> "matches",
      function |-> FunctionNew("fn_matches", <<1, 1>>)],
     [name |-> "has",
      function |-> FunctionNew("fn_has", <<1, 1>>)],
     [name |-> "type",
      function |-> FunctionNew("fn_type", <<0, 0>>)],
     [name |-> "content",
      function |-> FunctionNew("fn_content", <<0, 0>>)],
     [name |-> "md",
      function |-> FunctionNew("fn_md", <<0, 0>>)],
     [name |-> "url",
      function |-> FunctionNew("fn_url", <<0, 0>>)],
     [name |-> "lang",
      function |-> FunctionNew("fn_lang", <<0, 0>>)],
     [name |-> "stats",
      function |-> FunctionNew("fn_stats", <<0, 0>>)],
     [name |-> "levels",
      function |-> FunctionNew("fn_levels", <<0, 0>>)],
     [name |-> "langs",
      function |-> FunctionNew("fn_langs", <<0, 0>>)],
     [name |-> "types",
      function |-> FunctionNew("fn_types", <<0, 0>>)],
     [name |-> "limit",
      function |-> FunctionNew("fn_limit", <<1, 1>>)],
     [name |-> "skip",
      function |-> FunctionNew("fn_skip", <<1, 1>>)],
     [name |-> "nth",
      function |-> FunctionNew("fn_nth", <<1, 1>>)],
     [name |-> "any",
      function |-> with_takes_input(FunctionNew("fn_any", <<1, 1>>), TRUE)],
     [name |-> "all",
      function |-> with_takes_input(FunctionNew("fn_all", <<1, 1>>), TRUE)],
     [name |-> "min",
      function |-> FunctionNew("fn_min", <<0, 0>>)],
     [name |-> "max",
      function |-> FunctionNew("fn_max", <<0, 0>>)],
     [name |-> "add",
      function |-> FunctionNew("fn_add", <<0, 0>>)],
     [name |-> "not",
      function |-> FunctionNew("fn_not", <<0, 0>>)],
     [name |-> "null",
      function |-> FunctionNew("fn_null", <<0, 0>>)],
     [name |-> "debug",
      function |-> FunctionNew("fn_debug", <<0, 0>>)],
     [name |-> "group_by",
      function |-> FunctionNew("fn_group_by", <<1, 1>>)],
     [name |-> "sort_by",
      function |-> FunctionNew("fn_sort_by", <<1, 1>>)],
     [alias |-> "len", target |-> "length"],
     [alias |-> "size", target |-> "length"],
     [alias |-> "where", target |-> "select"],
     [alias |-> "filter", target |-> "select"],
     [alias |-> "includes", target |-> "contains"],
     [alias |-> "starts_with", target |-> "startswith"],
     [alias |-> "ends_with", target |-> "endswith"],
     [alias |-> "group", target |-> "group_by"],
     [alias |-> "head", target |-> "first"],
     [alias |-> "take", target |-> "limit"],
     [alias |-> "drop", target |-> "skip"],
     [alias |-> "ascii_downcase", target |-> "lower"],
     [alias |-> "ascii_upcase", target |-> "upper"],
     [alias |-> "markdown", target |-> "md"],
     [alias |-> "language", target |-> "lang"],
     [alias |-> "src", target |-> "url"],
     [alias |-> "href", target |-> "url"]>>

\* The names a lookup asks for.
LookupNames ==
    {register_all[i].name :
        i \in {j \in 1..Len(register_all) : "name" \in DOMAIN register_all[j]}}
    \cup {register_all[i].alias :
        i \in {j \in 1..Len(register_all) : "alias" \in DOMAIN register_all[j]}}
    \cup {"nonexistent"}

\* Registry::new, at the start of register_all
BuiltinsInit ==
    /\ reg = [pc |-> "register_all", next |-> 1, functions |-> <<>>,
              aliases |-> <<>>, query |-> "", found |-> {}]
    /\ lev = Idle /\ slug = Idle /\ tree = Idle /\ sect = Idle /\ prs = Idle
    /\ fnc = Idle /\ cnt = Idle

\* The state after the call at reg.next of register_all.
AfterCall(r) ==
    [r EXCEPT !.next = @ + 1,
              !.pc = IF r.next = Len(register_all) THEN "ready" ELSE @]

\* A registry.register_function(..) call of register_all
RegisterBuiltinFunction ==
    /\ reg.pc = "register_all"
    /\ "name" \in DOMAIN register_all[reg.next]
    /\ reg' = AfterCall([reg EXCEPT !.functions =
                  MapInsert(reg.functions, register_all[reg.next].name,
                            register_all[reg.next].function)])
    /\ UNCHANGED <<lev, slug, tree, sect, prs, fnc, cnt>>

\* A registry.register_alias(..) call of register_all
RegisterBuiltinAlias ==
    /\ reg.pc = "register_all"
    /\ "alias" \in DOMAIN register_all[reg.next]
    /\ reg' = AfterCall([reg EXCEPT !.aliases =
                  MapInsert(reg.aliases, register_all[reg.next].alias,
                            register_all[reg.next].target)])
    /\ UNCHANGED <<lev, slug, tree, sect, prs, fnc, cnt>>

\* Registry::get_function on the registry with_builtins returns
GetBuiltin(name) ==
    /\ reg.pc = "ready"
    /\ reg' = [reg EXCEPT !.pc = "looked_up", !.query = name,
                          !.found = get_function(reg, name)]
    /\ UNCHANGED <<lev, slug, tree, sect, prs, fnc, cnt>>

BuiltinsNext ==
    \/ RegisterBuiltinFunction
    \/ RegisterBuiltinAlias
    \/ \E name \in LookupNames : GetBuiltin(name)

SpecBuiltins == BuiltinsInit /\ [][BuiltinsNext]_vars

\* The aggregation functions.
AggregationNames == {"stats", "levels", "langs", "types"}

\* C17: after Registry::with_builtins the aggregation functions stats,
\* levels, langs and types are input-free (takes_input = false) and every
\* other built-in function is input-taking.
C17_AggregationsAreInputFree ==
    reg.pc \in {"ready", "looked_up"}
        => \A name \in DOMAIN reg.functions :
               reg.functions[name].takes_input
                   <=> name \notin AggregationNames

(***************************************************************************)
(* Content parsing (parser/content.rs): ParserState, its flush operations  *)
(* and process_event.  Text is a sequence of characters; Option is <<>> or *)
(* <<x>>.                                                                  *)
(***************************************************************************)

\* str::ends_with(char)
EndsWithChar(s, c) == Len(s) > 0 /\ s[Len(s)] = c

\* str::trim_end
RECURSIVE TrimEnd(_)
TrimEnd(s) ==
    IF s # <<>> /\ IsWhitespace(s[Len(s)]) THEN TrimEnd(SubSeq(s, 1, Len(s) - 1))
    ELSE s

\* str::trim
Trim(s) == TrimEnd(TrimStart(s))

\* str::repeat
RECURSIVE Repeat(_, _)
Repeat(s, n) == IF n <= 0 THEN <<>> ELSE s \o Repeat(s, n - 1)

\* usize::saturating_sub
saturating_sub(a, b) == IF a >= b THEN a - b ELSE 0

\* ParserState::new
ParserStateNew(start_line) ==
    [current_line |-> start_line, paragraph_buffer |-> <<>>,
     inline_buffer |-> <<>>, list_items |-> <<>>, list_ordered |-> FALSE,
     list_depth |-> 0, item_depth |-> 0, task_list_marker |-> <<>>,
     saved_task_markers |-> <<>>, code_buffer |-> <<>>,
     code_language |-> <<>>, code_start_line |-> 0,
     blockquote_buffer |-> <<>>, table_headers |-> <<>>,
     table_alignments |-> <<>>, table_rows |-> <<>>, current_row |-> <<>>,
     in_paragraph |-> FALSE, in_list |-> FALSE, in_code |-> FALSE,
     in_blockquote |-> FALSE, in_table |-> FALSE, in_strong |-> FALSE,
     in_emphasis |-> FALSE, in_strikethrough |-> FALSE,
     in_code_inline |-> FALSE, in_link |-> FALSE, link_url |-> <<>>,
     link_text |-> <<>>]

\* The pair (state, blocks) every operation on the parser state works on.
SB(state, blocks) == [state |-> state, blocks |-> blocks]

\* ParserState::flush_paragraph
flush_paragraph(sb) ==
    IF sb.state.in_paragraph /\ sb.state.paragraph_buffer # <<>>
    THEN SB([sb.state EXCEPT !.paragraph_buffer = <<>>,
                             !.inline_buffer = <<>>,
                             !.in_paragraph = FALSE],
            Append(sb.blocks,
                   [type |-> "Paragraph",
                    content |-> sb.state.paragraph_buffer,
                    inline |-> sb.state.inline_buffer]))
    ELSE sb

\* ParserState::flush_list
flush_list(sb) ==
    IF sb.state.in_list /\ sb.state.list_items # <<>>
    THEN SB([sb.state EXCEPT !.list_items = <<>>, !.in_list = FALSE],
            Append(sb.blocks,
                   [type |-> "List", ordered |-> sb.state.list_ordered,
                    items |-> sb.state.list_items]))
    ELSE sb

\* ParserState::flush_code
flush_code(sb) ==
    IF sb.state.in_code /\ sb.state.code_buffer # <<>>
    THEN SB([sb.state EXCEPT !.code_buffer = <<>>, !.code_language = <<>>,
                             !.in_code = FALSE],
            Append(sb.blocks,
                   [type |-> "Code", language |-> sb.state.code_language,
                    content |-> TrimEnd(sb.state.code_buffer),
                    start_line |-> sb.state.code_start_line,
                    end_line |-> sb.state.current_line]))
    ELSE sb

\* ParserState::flush_table
flush_table(sb) ==
    IF sb.state.in_table /\ sb.state.table_headers # <<>>
    THEN SB([sb.state EXCEPT !.table_headers = <<>>,
                             !.table_alignments = <<>>,
                             !.table_rows = <<>>, !.in_table = FALSE],
            Append(sb.blocks,
                   [type |-> "Table", headers |-> sb.state.table_headers,
                    alignments |-> sb.state.table_alignments,
                    rows |-> sb.state.table_rows]))
    ELSE sb

\* ParserState::add_inline_text
add_inline_text(state, text) ==
    IF text = <<>> THEN state
    ELSE [state EXCEPT
            !.inline_buffer =
                Append(@, [type |-> IF state.in_code_inline THEN "Code"
                                    ELSE IF state.in_strong THEN "Strong"
                                    ELSE IF state.in_emphasis THEN "Emphasis"
                                    ELSE IF state.in_strikethrough
                                         THEN "Strikethrough"
                                    ELSE "Text",
                           value |-> text]),
            !.paragraph_buffer = @ \o text]

\* process_event, Event::Text in a nested list item: the newline, the
\* indentation and the checkbox marker put before the text.
NestedItemPrefix(state) ==
    LET nl == IF state.paragraph_buffer # <<>>
                 /\ ~EndsWithChar(state.paragraph_buffer, "\n")
              THEN <<"\n">> ELSE <<>>
        indent == Repeat(<<" ", " ">>, state.item_depth - 1)
        marker == IF state.task_list_marker = <<>> THEN <<>>
                  ELSE IF state.task_list_marker[1]
                       THEN <<"[", "x", "]", " ">>
                       ELSE <<"[", " ", "]", " ">>
    IN  [state EXCEPT !.paragraph_buffer = @ \o nl \o indent \o marker,
                      !.task_list_marker = <<>>]

\* process_event, Event::Text
TextEvent(state, text) ==
    IF state.in_code THEN [state EXCEPT !.code_buffer = @ \o text]
    ELSE IF state.in_blockquote
         THEN [state EXCEPT !.blockquote_buffer = @ \o text]
    ELSE IF state.in_link THEN [state EXCEPT !.link_text = @ \o text]
    ELSE IF state.in_list /\ state.item_depth > 1
         THEN add_inline_text(NestedItemPrefix(state), text)
    ELSE add_inline_text(state, text)

\* process_event, Event::End(TagEnd::Item)
EndItem(state) ==
    LET restored ==
            IF state.item_depth > 1 /\ state.saved_task_markers # <<>>
            THEN [state EXCEPT
                    !.task_list_marker =
                        state.saved_task_markers[Len(state.saved_task_markers)],
                    !.saved_task_markers = SubSeq(@, 1, Len(@) - 1)]
            ELSE state
        saved ==
            IF restored.item_depth = 1
            THEN [restored EXCEPT
                    !.list_items =
                        Append(@, [checked |-> restored.task_list_marker,
                                   content |-> restored.paragraph_buffer,
                                   inline |-> restored.inline_buffer]),
                    !.paragraph_buffer = <<>>,
                    !.inline_buffer = <<>>,
                    !.task_list_marker = <<>>]
            ELSE restored
    IN  [saved EXCEPT !.item_depth = saturating_sub(@, 1)]

\* Start(Tag::Item) that leaves the enclosing item's marker in place.
StartItemNoSave(state) ==
    LET entered == [state EXCEPT !.item_depth = @ + 1]
    IN  IF entered.item_depth = 1
        THEN [entered EXCEPT !.paragraph_buffer = <<>>, !.inline_buffer = <<>>]
        ELSE entered

\* process_event, Event::Start(Tag::Item)
StartItem(state) ==
    LET entered == [state EXCEPT !.item_depth = @ + 1]
        nested ==
            IF entered.item_depth > 1
            THEN [entered EXCEPT
                    !.saved_task_markers = Append(@, entered.task_list_marker),
                    !.task_list_marker = <<>>]
            ELSE entered
    IN  IF nested.item_depth = 1
        THEN [nested EXCEPT !.paragraph_buffer = <<>>, !.inline_buffer = <<>>]
        ELSE nested

\* process_event, Event::End(TagEnd::Image)
EndImage(sb) ==
    LET flushed == flush_paragraph(sb)
    IN  SB([flushed.state EXCEPT !.link_text = <<>>, !.link_url = <<>>,
                                 !.paragraph_buffer = <<>>],
           Append(flushed.blocks,
                  [type |-> "Image", alt |-> flushed.state.link_text,
                   src |-> flushed.state.link_url,
                   title |-> IF flushed.state.paragraph_buffer = <<>>
                             THEN <<>>
                             ELSE <<flushed.state.paragraph_buffer>>]))

\* process_event, Event::End(TagEnd::Link)
EndLink(state) ==
    [state EXCEPT
       !.in_link = FALSE,
       !.inline_buffer = Append(@, [type |-> "Link", text |-> state.link_text,
                                    url |-> state.link_url, title |-> <<>>]),
       !.paragraph_buffer =
           @ \o <<"[">> \o state.link_text \o <<"]", "(">> \o state.link_url
             \o <<")">>,
       !.link_text = <<>>,
       !.link_url = <<>>]

\* str::find: the 0-based offset of the first occurrence, if any.
Find(s, p) ==
    IF Occurrences(s, p) = {} THEN <<>>
    ELSE <<CHOOSE k \in Occurrences(s, p) :
               \A j \in Occurrences(s, p) : k <= j>>

\* &s[from..]
SliceFrom(s, from) == SubSeq(s, from + 1, Len(s))

\* &s[from..to]
Slice(s, from, to) == SubSeq(s, from + 1, to)

DetailsOpen == <<"<", "d", "e", "t", "a", "i", "l", "s">>

DetailsClose == <<"<", "/", "d", "e", "t", "a", "i", "l", "s", ">">>

SummaryOpen == <<"<", "s", "u", "m", "m", "a", "r", "y">>

SummaryClose == <<"<", "/", "s", "u", "m", "m", "a", "r", "y", ">">>

PlaceholderPrefix ==
    <<"[", "D", "E", "T", "A", "I", "L", "S", "_", "B", "L", "O", "C", "K", "_">>

\* format!("{}", n) of a usize
RECURSIVE UsizeToString(_)
UsizeToString(n) ==
    LET digit == <<"0", "1", "2", "3", "4", "5", "6", "7", "8", "9">>[(n % 10) + 1]
    IN  IF n < 10 THEN <<digit>> ELSE UsizeToString(n \div 10) \o <<digit>>

\* str::parse::<usize>: an optional '+' and at least one digit.
ParseUsize(s) ==
    LET digits == IF s # <<>> /\ s[1] = "+" THEN Tail(s) ELSE s
    IN  IF digits # <<>> /\ \A k \in 1..Len(digits) : IsAsciiDigit(digits[k])
        THEN <<DigitsValue(digits)>>
        ELSE <<>>

\* format!("\n[DETAILS_BLOCK_{}]\n", index)
Placeholder(index) ==
    <<"\n">> \o PlaceholderPrefix \o UsizeToString(index) \o <<"]", "\n">>

\* extract_details_blocks, "Extract summary"
DetailsSummary(details_content) ==
    LET start == Find(details_content, SummaryOpen)
    IN  IF start = <<>> THEN <<>>
        ELSE LET tag_end == Find(SliceFrom(details_content, start[1]), <<">">>)
             IN  IF tag_end = <<>> THEN <<>>
                 ELSE LET content_start == start[1] + tag_end[1] + 1
                          end_pos == Find(SliceFrom(details_content,
                                                    content_start),
                                          SummaryClose)
                      IN  IF end_pos = <<>> THEN <<>>
                          ELSE Trim(Slice(details_content, content_start,
                                          content_start + end_pos[1]))

\* extract_details_blocks, "Extract content (everything after </summary>)"
DetailsBody(details_content) ==
    LET end_pos == Find(details_content, SummaryClose)
    IN  Trim(IF end_pos = <<>> THEN details_content
             ELSE SliceFrom(details_content, end_pos[1] + Len(SummaryClose)))

\* Where the details element opening at current_pos ends: the offsets of its
\* content, or <<>> when the cursor is not on a complete element.
DetailsSpan(markdown, current_pos) ==
    IF ~StartsWith(SliceFrom(markdown, current_pos), DetailsOpen) THEN <<>>
    ELSE LET tag_end == Find(SliceFrom(markdown, current_pos), <<">">>)
         IN  IF tag_end = <<>> THEN <<>>
             ELSE LET details_start == current_pos + tag_end[1] + 1
                      end_pos == Find(SliceFrom(markdown, details_start),
                                      DetailsClose)
                  IN  IF end_pos = <<>> THEN <<>>
                      ELSE <<[details_start |-> details_start,
                              details_end |-> details_start + end_pos[1]]>>

(***************************************************************************)
(* The events pulldown_cmark produces for the markdown parse_content hands *)
(* it, on the texts modelled here: letters, newlines, placeholders and     *)
(* details/summary tags.  Blank lines separate blocks.  A line that begins *)
(* with a tag begins an HTML block that runs to the next blank line; other *)
(* lines form a paragraph, its lines joined by soft breaks, with the tags  *)
(* inside a line as inline HTML.                                           *)
(***************************************************************************)

RECURSIVE InlineEvents(_), BlockEvents(_, _, _, _), process_event(_, _),
          process_events(_, _, _), flush_blockquote(_), finalize(_),
          extract_loop(_, _, _, _), extract_details_blocks(_),
          parse_content(_, _)

Ev(e) == [e |-> e]

EvText(text) == [e |-> "Text", text |-> text]

\* The events of one paragraph line: its text runs and inline HTML tags.
InlineEvents(line) ==
    IF line = <<>> THEN <<>>
    ELSE IF line[1] = "<"
         THEN LET close == Find(line, <<">">>)
              IN  IF close = <<>> THEN <<EvText(line)>>
                  ELSE <<Ev("InlineHtml")>>
                       \o InlineEvents(SliceFrom(line, close[1] + 1))
    ELSE LET open == Find(line, <<"<">>)
         IN  IF open = <<>> THEN <<EvText(line)>>
             ELSE <<EvText(Slice(line, 0, open[1]))>>
                  \o InlineEvents(SliceFrom(line, open[1]))

\* The events of the lines from k on; in_par: a paragraph is open,
\* in_html: an HTML block is open.
BlockEvents(lines, k, in_par, in_html) ==
    IF k > Len(lines)
    THEN IF in_par THEN <<Ev("EndParagraph")>> ELSE <<>>
    ELSE LET line == Trim(lines[k])
         IN  IF line = <<>>
             THEN (IF in_par THEN <<Ev("EndParagraph")>> ELSE <<>>)
                  \o BlockEvents(lines, k + 1, FALSE, FALSE)
             ELSE IF in_html
                  THEN <<Ev("Html")>> \o BlockEvents(lines, k + 1, FALSE, TRUE)
             ELSE IF line[1] = "<"
                  THEN (IF in_par THEN <<Ev("EndParagraph")>> ELSE <<>>)
                       \o <<Ev("Html")>>
                       \o BlockEvents(lines, k + 1, FALSE, TRUE)
             ELSE (IF in_par THEN <<Ev("SoftBreak")>>
                   ELSE <<Ev("StartParagraph")>>)
                  \o InlineEvents(line)
                  \o BlockEvents(lines, k + 1, TRUE, FALSE)

\* Parser::new_ext(&processed_markdown, options)
CmarkEvents(markdown) == BlockEvents(Split(markdown, "\n"), 1, FALSE, FALSE)

\* process_event
process_event(event, sb) ==
    LET state == sb.state
        blocks == sb.blocks
        e == event.e
    IN  CASE e = "StartParagraph" ->
                SB([state EXCEPT !.in_paragraph = TRUE], blocks)
          [] e = "EndParagraph" -> flush_paragraph(sb)
          [] e = "StartCodeBlock" ->
                SB([state EXCEPT
                      !.in_code = TRUE,
                      !.code_start_line = state.current_line,
                      !.code_language =
                          IF event.fenced /\ event.lang # <<>>
                          THEN <<event.lang>> ELSE <<>>], blocks)
          [] e = "EndCodeBlock" -> flush_code(sb)
          [] e = "StartList" ->
                SB(IF state.list_depth + 1 = 1
                   THEN [state EXCEPT !.list_depth = @ + 1,
                                      !.in_list = TRUE,
                                      !.list_ordered =
                                          event.start_number # <<>>]
                   ELSE [state EXCEPT !.list_depth = @ + 1], blocks)
          [] e = "EndList" ->
                IF saturating_sub(state.list_depth, 1) = 0
                THEN flush_list(SB([state EXCEPT !.list_depth = 0], blocks))
                ELSE SB([state EXCEPT !.list_depth = @ - 1], blocks)
          [] e = "StartItem" -> SB(StartItem(state), blocks)
          [] e = "EndItem" -> SB(EndItem(state), blocks)
          [] e = "TaskListMarker" ->
                SB([state EXCEPT !.task_list_marker = <<event.checked>>],
                   blocks)
          [] e = "StartBlockQuote" ->
                SB([state EXCEPT !.in_blockquote = TRUE], blocks)
          [] e = "EndBlockQuote" -> flush_blockquote(sb)
          [] e = "StartTable" ->
                SB([state EXCEPT !.in_table = TRUE,
                                 !.table_alignments = event.alignments],
                   blocks)
          [] e = "EndTable" -> flush_table(sb)
          [] e = "EndTableHead" ->
                SB([state EXCEPT !.table_headers = state.current_row,
                                 !.current_row = <<>>], blocks)
          [] e = "EndTableRow" ->
                SB([state EXCEPT !.table_rows = Append(@, state.current_row),
                                 !.current_row = <<>>], blocks)
          [] e = "StartTableCell" ->
                SB([state EXCEPT !.paragraph_buffer = <<>>], blocks)
          [] e = "EndTableCell" ->
                SB([state EXCEPT
                      !.current_row = Append(@, state.paragraph_buffer),
                      !.paragraph_buffer = <<>>], blocks)
          [] e = "StartStrong" -> SB([state EXCEPT !.in_strong = TRUE], blocks)
          [] e = "EndStrong" -> SB([state EXCEPT !.in_strong = FALSE], blocks)
          [] e = "StartEmphasis" ->
                SB([state EXCEPT !.in_emphasis = TRUE], blocks)
          [] e = "EndEmphasis" ->
                SB([state EXCEPT !.in_emphasis = FALSE], blocks)
          [] e = "StartStrikethrough" ->
                SB([state EXCEPT !.in_strikethrough = TRUE], blocks)
          [] e = "EndStrikethrough" ->
                SB([state EXCEPT !.in_strikethrough = FALSE], blocks)
          [] e = "Code" ->
                SB([add_inline_text([state EXCEPT !.in_code_inline = TRUE],
                                    event.text)
                      EXCEPT !.in_code_inline = FALSE], blocks)
          [] e = "StartLink" ->
                SB([state EXCEPT !.in_link = TRUE,
                                 !.link_url = event.dest_url,
                                 !.link_text = <<>>], blocks)
          [] e = "EndLink" -> SB(EndLink(state), blocks)
          [] e = "StartImage" ->
                SB([state EXCEPT !.link_url = event.dest_url,
                                 !.link_text = <<>>,
                                 !.paragraph_buffer = event.title], blocks)
          [] e = "EndImage" -> EndImage(sb)
          [] e = "Text" -> SB(TextEvent(state, event.text), blocks)
          [] e = "SoftBreak" ->
                IF state.in_paragraph
                THEN SB([state EXCEPT
                           !.paragraph_buffer = Append(@, " "),
                           !.inline_buffer =
                               Append(@, [type |-> "Text", value |-> <<" ">>])],
                        blocks)
                ELSE sb
          [] e = "HardBreak" ->
                IF state.in_paragraph
                THEN SB([state EXCEPT
                           !.paragraph_buffer = Append(@, "\n"),
                           !.inline_buffer =
                               Append(@, [type |-> "Text", value |-> <<"\n">>])],
                        blocks)
                ELSE sb
          [] e = "Rule" ->
                LET flushed == flush_paragraph(sb)
                IN  SB(flushed.state,
                       Append(flushed.blocks, [type |-> "HorizontalRule"]))
          [] OTHER -> sb

\* for event in parser { process_event(event, &mut state, &mut blocks) }
process_events(events, k, sb) ==
    IF k > Len(events) THEN sb
    ELSE process_events(events, k + 1, process_event(events[k], sb))

\* ParserState::flush_blockquote
flush_blockquote(sb) ==
    IF sb.state.in_blockquote /\ sb.state.blockquote_buffer # <<>>
    THEN SB([sb.state EXCEPT !.blockquote_buffer = <<>>,
                             !.in_blockquote = FALSE],
            Append(sb.blocks,
                   [type |-> "Blockquote",
                    content |-> sb.state.blockquote_buffer,
                    blocks |-> parse_content(sb.state.blockquote_buffer,
                                             sb.state.current_line)]))
    ELSE sb

\* ParserState::finalize
finalize(sb) ==
    flush_table(flush_blockquote(flush_code(flush_list(flush_paragraph(sb)))))

\* parse_content, "Replace placeholders with actual Details blocks"
ReplacePlaceholder(block, details_blocks) ==
    IF block.type # "Paragraph" THEN block
    ELSE LET trimmed == Trim(block.content)
         IN  IF StartsWith(trimmed, PlaceholderPrefix)
                /\ EndsWithChar(trimmed, "]")
                /\ Len(trimmed) > Len(PlaceholderPrefix)
             THEN LET index == ParseUsize(Slice(trimmed, Len(PlaceholderPrefix),
                                                Len(trimmed) - 1))
                  IN  IF index # <<>> /\ index[1] < Len(details_blocks)
                      THEN details_blocks[index[1] + 1]
                      ELSE block
             ELSE block

\* extract_details_blocks, the loop from current_pos on.
extract_loop(markdown, current_pos, result, details_blocks) ==
    IF current_pos >= Len(markdown)
    THEN [result |-> result, details_blocks |-> details_blocks]
    ELSE LET span == DetailsSpan(markdown, current_pos)
         IN  IF span # <<>>
             THEN LET details_content == Slice(markdown, span[1].details_start,
                                               span[1].details_end)
                      content_trimmed == DetailsBody(details_content)
                  IN  extract_loop(
                          markdown,
                          span[1].details_end + Len(DetailsClose),
                          result \o Placeholder(Len(details_blocks)),
                          Append(details_blocks,
                                 [type |-> "Details",
                                  summary |-> DetailsSummary(details_content),
                                  content |-> content_trimmed,
                                  blocks |-> IF content_trimmed # <<>>
                                             THEN parse_content(content_trimmed, 0)
                                             ELSE <<>>]))
             ELSE extract_loop(markdown, current_pos + 1,
                               Append(result, markdown[current_pos + 1]),
                               details_blocks)

\* extract_details_blocks
extract_details_blocks(markdown) == extract_loop(markdown, 0, <<>>, <<>>)

\* parse_content
parse_content(markdown, start_line) ==
    LET extracted == extract_details_blocks(markdown)
        parsed == finalize(process_events(CmarkEvents(extracted.result), 1,
                                          SB(ParserStateNew(start_line), <<>>)))
    IN  [k \in 1..Len(parsed.blocks) |->
            ReplacePlaceholder(parsed.blocks[k], extracted.details_blocks)]

(***************************************************************************)
(* parse_content on markdown made of details tags, letters and newlines.   *)
(***************************************************************************)

MaxAtoms == 6

DetailsAtoms == {DetailsOpen \o <<">">>, DetailsClose, <<"a">>, <<"\n">>}

RECURSIVE Flatten(_)
Flatten(atoms) ==
    IF atoms = <<>> THEN <<>> ELSE Head(atoms) \o Flatten(Tail(atoms))

DetailsInit ==
    /\ \E atoms \in SeqsUpTo(DetailsAtoms, MaxAtoms) :
           cnt = [pc |-> "input", markdown |-> Flatten(atoms)]
    /\ lev = Idle /\ slug = Idle /\ reg = Idle /\ tree = Idle
    /\ sect = Idle /\ prs = Idle /\ fnc = Idle

\* parse_content(markdown, 0), keeping what extract_details_blocks returned.
ParseContent ==
    /\ cnt.pc = "input"
    /\ cnt' = [pc |-> "done", markdown |-> cnt.markdown,
               extracted |-> extract_details_blocks(cnt.markdown),
               blocks |-> parse_content(cnt.markdown, 0)]
    /\ UNCHANGED <<lev, slug, reg, tree, sect, prs, fnc>>

SpecDetails == DetailsInit /\ [][ParseContent]_vars

\* The offsets, in increasing order, at which p occurs in s.
RECURSIVE SortedOffsets(_)
SortedOffsets(S) ==
    IF S = {} THEN <<>>
    ELSE LET m == CHOOSE k \in S : \A j \in S : k <= j
         IN  <<m>> \o SortedOffsets(S \ {m})

\* markdown is Pre <details> A <details> B </details> C </details> Post
\* with no other tag.
IsNestedDetails(markdown) ==
    LET opens == SortedOffsets(Occurrences(markdown, DetailsOpen))
        closes == SortedOffsets(Occurrences(markdown, DetailsClose))
    IN  /\ Len(opens) = 2
        /\ Len(closes) = 2
        /\ opens[2] < closes[1]

\* C18: for markdown Pre <details> A <details> B </details> C </details> Post
\* the processed markdown is Pre, one placeholder, Post; there is one
\* extracted Details block, holding the whole balanced outer span, and its
\* blocks hold a Details block for the nested element.
C18_NestedDetailsBalanced ==
    (cnt.pc = "done" /\ IsNestedDetails(cnt.markdown)) =>
        LET md == cnt.markdown
            opens == SortedOffsets(Occurrences(md, DetailsOpen))
            closes == SortedOffsets(Occurrences(md, DetailsClose))
            open_len == Len(DetailsOpen) + 1
            close_len == Len(DetailsClose)
            outer == Slice(md, opens[1] + open_len, closes[2])
            inner == Slice(md, opens[2] + open_len, closes[1])
        IN  /\ cnt.extracted.result
                 = Slice(md, 0, opens[1]) \o Placeholder(0)
                   \o SliceFrom(md, closes[2] + close_len)
            /\ Len(cnt.extracted.details_blocks) = 1
            /\ cnt.extracted.details_blocks[1].content = Trim(outer)
            /\ \E k \in 1..Len(cnt.extracted.details_blocks[1].blocks) :
                   /\ cnt.extracted.details_blocks[1].blocks[k].type = "Details"
                   /\ cnt.extracted.details_blocks[1].blocks[k].content
                          = Trim(inner)

\* What the code does with the same markdown: the outer element ends at the
\* first closing tag, the rest of it stays in the processed markdown, and no
\* nested Details block is produced.
NestedDetailsCutAtFirstClose ==
    (cnt.pc = "done" /\ IsNestedDetails(cnt.markdown)) =>
        LET md == cnt.markdown
            opens == SortedOffsets(Occurrences(md, DetailsOpen))
            closes == SortedOffsets(Occurrences(md, DetailsClose))
        IN  /\ cnt.extracted.result
                 = Slice(md, 0, opens[1]) \o Placeholder(0)
                   \o SliceFrom(md, closes[1] + Len(DetailsClose))
            /\ Len(cnt.extracted.details_blocks) = 1
            /\ cnt.extracted.details_blocks[1].content
                 = Trim(Slice(md, opens[1] + Len(DetailsOpen) + 1, closes[1]))
            /\ \A k \in 1..Len(cnt.extracted.details_blocks[1].blocks) :
                   cnt.extracted.details_blocks[1].blocks[k].type # "Details"

(***************************************************************************)
(* parse_content's event loop, one event per step, on event sequences of   *)
(* a paragraph that holds an image.                                        *)
(***************************************************************************)

EvStartImage(dest_url, title) ==
    [e |-> "StartImage", dest_url |-> dest_url, title |-> title]

\* Text events, one per text.
RECURSIVE TextEvents(_)
TextEvents(texts) ==
    IF texts = <<>> THEN <<>>
    ELSE <<EvText(Head(texts))>> \o TextEvents(Tail(texts))

MaxAltTexts == 2

ImageTexts == {<<"a">>, <<"b", "c">>}

ImageTitles == {<<>>, <<"t">>}

ImageUrls == {<<"u">>}

\* The events of the paragraph  pre ![alt](url "title") post.
ImageParagraph(pre, url, title, alts, post) ==
    <<Ev("StartParagraph")>> \o TextEvents(pre)
    \o <<EvStartImage(url, title)>> \o TextEvents(alts) \o <<Ev("EndImage")>>
    \o TextEvents(post) \o <<Ev("EndParagraph")>>

\* The state before the first event: let mut state = ParserState::new(..);
\* input is what the events were produced from.
ContentStart(input, events) ==
    [pc |-> "events", input |-> input, events |-> events, pos |-> 1,
     state |-> ParserStateNew(0), blocks |-> <<>>]

ImageInit ==
    /\ \E pre \in SeqsUpTo(ImageTexts, 1), post \in SeqsUpTo(ImageTexts, 1),
          url \in ImageUrls, title \in ImageTitles,
          alts \in SeqsUpTo(ImageTexts, MaxAltTexts) :
           cnt = ContentStart("image",
                              ImageParagraph(pre, url, title, alts, post))
    /\ lev = Idle /\ slug = Idle /\ reg = Idle /\ tree = Idle
    /\ sect = Idle /\ prs = Idle /\ fnc = Idle

\* for event in parser { process_event(event, &mut state, &mut blocks); }
ProcessEvent ==
    /\ cnt.pc = "events"
    /\ cnt.pos <= Len(cnt.events)
    /\ LET sb == process_event(cnt.events[cnt.pos], SB(cnt.state, cnt.blocks))
       IN  cnt' = [cnt EXCEPT !.pos = @ + 1, !.state = sb.state,
                              !.blocks = sb.blocks]
    /\ UNCHANGED <<lev, slug, reg, tree, sect, prs, fnc>>

\* state.finalize(&mut blocks);
Finalize ==
    /\ cnt.pc = "events"
    /\ cnt.pos > Len(cnt.events)
    /\ LET sb == finalize(SB(cnt.state, cnt.blocks))
       IN  cnt' = [cnt EXCEPT !.pc = "done", !.state = sb.state,
                              !.blocks = sb.blocks]
    /\ UNCHANGED <<lev, slug, reg, tree, sect, prs, fnc>>

ContentNext == ProcessEvent \/ Finalize

SpecImage == ImageInit /\ [][ContentNext]_vars

\* The position of the first event of kind e.
EventIndex(events, e) ==
    CHOOSE k \in 1..Len(events) :
        events[k].e = e /\ \A j \in 1..(k - 1) : events[j].e # e

\* The texts of the Text events at positions from..to, concatenated.
RECURSIVE TextBetween(_, _, _)
TextBetween(events, from, to) ==
    IF from > to THEN <<>>
    ELSE (IF events[from].e = "Text" THEN events[from].text ELSE <<>>)
         \o TextBetween(events, from + 1, to)

\* End(Image) has just been processed.
ImageEnded ==
    /\ cnt.pc = "events"
    /\ cnt.pos = EventIndex(cnt.events, "EndImage") + 1

\* C19: when End(Image) has been processed, the blocks are the paragraph
\* text that preceded the image (if any) as a Paragraph block, then an Image
\* block with the text between Start(Image) and End(Image) as alt, the url
\* as src and the non-empty title.
C19_ImageFlushesParagraphFirst ==
    ImageEnded =>
        LET start == EventIndex(cnt.events, "StartImage")
            end == EventIndex(cnt.events, "EndImage")
            pre == TextBetween(cnt.events, 1, start - 1)
            image == [type |-> "Image",
                      alt |-> TextBetween(cnt.events, start + 1, end - 1),
                      src |-> cnt.events[start].dest_url,
                      title |-> IF cnt.events[start].title = <<>> THEN <<>>
                                ELSE <<cnt.events[start].title>>]
        IN  /\ Len(cnt.blocks) = (IF pre = <<>> THEN 1 ELSE 2)
            /\ cnt.blocks[Len(cnt.blocks)] = image
            /\ pre # <<>> =>
                   /\ cnt.blocks[1].type = "Paragraph"
                   /\ cnt.blocks[1].content = pre

\* What the code does: the title replaces the paragraph text, the alt text
\* is appended to it, and that is flushed as the paragraph; the image has an
\* empty alt and no title.
ImageOverwritesParagraph ==
    ImageEnded =>
        LET start == EventIndex(cnt.events, "StartImage")
            end == EventIndex(cnt.events, "EndImage")
            buffer == cnt.events[start].title
                      \o TextBetween(cnt.events, start + 1, end - 1)
            image == [type |-> "Image", alt |-> <<>>,
                      src |-> cnt.events[start].dest_url, title |-> <<>>]
        IN  /\ Len(cnt.blocks) = (IF buffer = <<>> THEN 1 ELSE 2)
            /\ cnt.blocks[Len(cnt.blocks)] = image
            /\ buffer # <<>> =>
                   /\ cnt.blocks[1].type = "Paragraph"
                   /\ cnt.blocks[1].content = buffer

(***************************************************************************)
(* The event loop on the events of a tight list.  A list is                *)
(* [start_number, items]; an item is [marker, pieces, child]: its task     *)
(* marker, its inline pieces (plain or emphasised text) and its nested     *)
(* list, if any.                                                           *)
(***************************************************************************)

MaxListDepth == 3

Plain(text) == [emphasis |-> FALSE, text |-> text]

Emphasised(text) == [emphasis |-> TRUE, text |-> text]

ItemRec(marker, pieces, child) ==
    [marker |-> marker, pieces |-> pieces, child |-> child]

ListRec(start_number, items) ==
    [start_number |-> start_number, items |-> items]

\* The inline pieces of an item: one text, or a text and an emphasised one.
PieceSeqs == {<<Plain(<<"a">>)>>, <<Plain(<<"b">>), Emphasised(<<"c">>)>>}

\* The item a list at depth 1 or 2 may have as its second item.
LeafItem == ItemRec(<<>>, <<Plain(<<"d">>)>>, <<>>)

\* The lists that start at depth d; lists below depth 2 are unordered and
\* have one item.
RECURSIVE ListsAt(_)
ListsAt(d) ==
    LET children == IF d >= MaxListDepth THEN {<<>>}
                    ELSE {<<>>} \cup {<<l>> : l \in ListsAt(d + 1)}
        markers == IF d = 1 THEN {<<>>, <<TRUE>>}
                   ELSE {<<>>, <<TRUE>>, <<FALSE>>}
        pieces == IF d = 1 THEN {<<Plain(<<"a">>)>>} ELSE PieceSeqs
        starts == IF d <= 2 THEN {<<>>, <<1>>} ELSE {<<>>}
        firsts == {ItemRec(m, p, c) :
                       m \in markers, p \in pieces, c \in children}
    IN  {ListRec(s, items) :
             s \in starts,
             items \in {<<i>> : i \in firsts}
                       \cup (IF d <= 2 THEN {<<i, LeafItem>> : i \in firsts}
                             ELSE {})}

\* The events of the inline pieces of an item.
RECURSIVE PieceEvents(_)
PieceEvents(pieces) ==
    IF pieces = <<>> THEN <<>>
    ELSE (IF Head(pieces).emphasis
          THEN <<Ev("StartEmphasis"), EvText(Head(pieces).text),
                 Ev("EndEmphasis")>>
          ELSE <<EvText(Head(pieces).text)>>)
         \o PieceEvents(Tail(pieces))

\* The events of a list and of the items of a list from the k-th on.
RECURSIVE ListEvents(_), ItemsEvents(_, _)
ListEvents(list) ==
    <<[e |-> "StartList", start_number |-> list.start_number]>>
    \o ItemsEvents(list.items, 1) \o <<Ev("EndList")>>

ItemsEvents(items, k) ==
    IF k > Len(items) THEN <<>>
    ELSE <<Ev("StartItem")>>
         \o (IF items[k].marker = <<>> THEN <<>>
             ELSE <<[e |-> "TaskListMarker", checked |-> items[k].marker[1]]>>)
         \o PieceEvents(items[k].pieces)
         \o (IF items[k].child = <<>> THEN <<>>
             ELSE ListEvents(items[k].child[1]))
         \o <<Ev("EndItem")>>
         \o ItemsEvents(items, k + 1)

ListInit ==
    /\ \E list \in ListsAt(1) : cnt = ContentStart(list, ListEvents(list))
    /\ lev = Idle /\ slug = Idle /\ reg = Idle /\ tree = Idle
    /\ sect = Idle /\ prs = Idle /\ fnc = Idle

SpecList == ListInit /\ [][ContentNext]_vars

\* The text of an item: the texts of its pieces.
RECURSIVE PiecesText(_)
PiecesText(pieces) ==
    IF pieces = <<>> THEN <<>>
    ELSE Head(pieces).text \o PiecesText(Tail(pieces))

\* One line for each item of the list at depth d and, after each, the lines
\* of the items nested in it.
RECURSIVE NestedLines(_, _), NestedLinesFrom(_, _, _)
NestedLines(list, d) == NestedLinesFrom(list.items, 1, d)

NestedLinesFrom(items, k, d) ==
    IF k > Len(items) THEN <<>>
    ELSE <<Repeat(<<" ", " ">>, d - 1)
           \o (IF items[k].marker = <<>> THEN <<>>
               ELSE IF items[k].marker[1] THEN <<"[", "x", "]", " ">>
               ELSE <<"[", " ", "]", " ">>)
           \o PiecesText(items[k].pieces)>>
         \o (IF items[k].child = <<>> THEN <<>>
             ELSE NestedLines(items[k].child[1], d + 1))
         \o NestedLinesFrom(items, k + 1, d)

\* The content of a depth-1 item: its text, then one line per nested item.
FlattenedContent(item) ==
    Join(<<PiecesText(item.pieces)>>
         \o (IF item.child = <<>> THEN <<>>
             ELSE NestedLines(item.child[1], 2)), "\n")

\* Every nested item of the list has a single Text event.
RECURSIVE SingleTextItems(_, _)
SingleTextItems(list, d) ==
    \A k \in 1..Len(list.items) :
        /\ d > 1 => Len(list.items[k].pieces) = 1
        /\ list.items[k].child # <<>> =>
               SingleTextItems(list.items[k].child[1], d + 1)

\* The blocks are one List block that flattens the list as described.
ListFlattened ==
    /\ Len(cnt.blocks) = 1
    /\ cnt.blocks[1].type = "List"
    /\ cnt.blocks[1].ordered = (cnt.input.start_number # <<>>)
    /\ Len(cnt.blocks[1].items) = Len(cnt.input.items)
    /\ \A k \in 1..Len(cnt.input.items) :
           cnt.blocks[1].items[k].content = FlattenedContent(cnt.input.items[k])

\* C20: the List block has one ListItem per depth-1 item, in order; each
\* nested item at depth d is exactly one line of its depth-1 ancestor's
\* content, indented by 2(d-1) spaces and prefixed by its checkbox; ordered
\* comes from the outermost list's start number only.
C20_NestedItemsFlattened == cnt.pc = "done" => ListFlattened

\* The flattening is as described when every nested item has one Text event.
SingleTextItemsFlattened ==
    (cnt.pc = "done" /\ SingleTextItems(cnt.input, 1)) => ListFlattened

\* The task markers of the depth-1 items of a list, in order.
ItemMarkers(items) == [k \in 1..Len(items) |-> items[k].marker]

\* The checked fields of emitted list items, in order.
CheckedOf(list_items) == [k \in 1..Len(list_items) |-> list_items[k].checked]

\* C21: the checked field of every emitted depth-1 ListItem is the task
\* marker that item itself received (None when it received none), whatever
\* markers its nested items or the items before it carried.
C21_CheckedIsOwnMarker ==
    /\ CheckedOf(cnt.state.list_items)
         = SubSeq(ItemMarkers(cnt.input.items), 1, Len(cnt.state.list_items))
    /\ \A b \in 1..Len(cnt.blocks) :
           CheckedOf(cnt.blocks[b].items) = ItemMarkers(cnt.input.items)

\* A finished list whose first item is checked, holds a nested item with
\* another marker, and is followed by a sibling without one.
C21_Witness ==
    /\ cnt.pc = "done"
    /\ Len(cnt.input.items) = 2
    /\ cnt.input.items[1].marker = <<TRUE>>
    /\ cnt.input.items[1].child # <<>>
    /\ cnt.input.items[1].child[1].items[1].marker = <<FALSE>>
    /\ cnt.input.items[2].marker = <<>>
    /\ CheckedOf(cnt.blocks[1].items) = <<<<TRUE>>, <<>>>>

(***************************************************************************)
(* HeadingNode::render_box_tree (parser/document.rs) and print_tree        *)
(* (main.rs), which renders every root of the built tree.                  *)
(***************************************************************************)

\* The box-drawing characters U+2514, U+251C, U+2500 and U+2502.
BoxUpRight == "U+2514"

BoxVertRight == "U+251C"

BoxHoriz == "U+2500"

BoxVert == "U+2502"

\* `let connector = if is_last { .. } else { .. };`
Connector(is_last) ==
    IF is_last THEN <<BoxUpRight, BoxHoriz, " ">> ELSE <<BoxVertRight, BoxHoriz, " ">>

\* `format!("{}{}   ", prefix, if is_last { " " } else { .. })`
ChildPrefix(prefix, is_last) ==
    prefix \o <<IF is_last THEN " " ELSE BoxVert>> \o <<" ", " ", " ">>

\* HeadingNode::render_box_tree; render_children is its `for` loop from the
\* k-th child on.
RECURSIVE render_box_tree(_, _, _), render_children(_, _, _)
render_box_tree(node, prefix, is_last) ==
    prefix \o Connector(is_last) \o Repeat(<<"#">>, node.heading.level)
    \o <<" ">> \o node.heading.text \o <<"\n">>
    \o render_children(node.children, 1, ChildPrefix(prefix, is_last))

render_children(children, k, child_prefix) ==
    IF k > Len(children) THEN <<>>
    ELSE render_box_tree(children[k], child_prefix, k = Len(children))
         \o render_children(children, k + 1, child_prefix)

\* print_tree: every root is rendered with an empty prefix.
PrintTree ==
    /\ tree.pc = "done"
    /\ tree' = [tree EXCEPT
                   !.pc = "printed",
                   !.result = render_children(tree.result, 1, <<>>)]
    /\ UNCHANGED <<lev, slug, reg, sect, prs, fnc, cnt>>

RenderNext == TreeNext \/ PrintTree

SpecRender == TreeInit /\ [][RenderNext]_vars

\* The lines of the nodes from the k-th on, depth first: prefix, connector,
\* '#' x level, a space, the text; the prefix of a node's children is the
\* node's prefix and three characters.
RECURSIVE BoxLines(_, _, _)
BoxLines(nodes, k, prefix) ==
    IF k > Len(nodes) THEN <<>>
    ELSE LET last == (k = Len(nodes))
             node == nodes[k]
         IN  <<prefix \o (IF last THEN <<BoxUpRight, BoxHoriz, " ">> ELSE <<BoxVertRight, BoxHoriz, " ">>)
               \o Repeat(<<"#">>, node.heading.level) \o <<" ">>
               \o node.heading.text>>
             \o BoxLines(node.children, 1,
                         prefix \o (IF last THEN <<" ", " ", " ">>
                                    ELSE <<BoxVert, " ", " ">>))
             \o BoxLines(nodes, k + 1, prefix)

\* The text made of the lines, each ended by a newline.
RECURSIVE LinesText(_)
LinesText(lines) ==
    IF lines = <<>> THEN <<>>
    ELSE Head(lines) \o <<"\n">> \o LinesText(Tail(lines))

\* The forest build_heading_node makes of the arena.
BuiltForest ==
    [k \in 1..Len(tree.roots) |->
        build_heading_node(tree.roots[k], tree.headings, tree.children)]

\* C22: the rendering is one line per node in depth-first order, each
\* line prefix + connector + '#' x level + ' ' + text, and a child's prefix
\* is its parent's prefix extended by three characters.
C22_BoxTreeLines ==
    tree.pc = "printed" =>
        tree.result = LinesText(BoxLines(BuiltForest, 1, <<>>))

\* What the code renders: the same lines with every child's prefix four
\* characters longer than its parent's.
RECURSIVE BoxLinesWide(_, _, _)
BoxLinesWide(nodes, k, prefix) ==
    IF k > Len(nodes) THEN <<>>
    ELSE LET last == (k = Len(nodes))
             node == nodes[k]
         IN  <<prefix \o (IF last THEN <<BoxUpRight, BoxHoriz, " ">> ELSE <<BoxVertRight, BoxHoriz, " ">>)
               \o Repeat(<<"#">>, node.heading.level) \o <<" ">>
               \o node.heading.text>>
             \o BoxLinesWide(node.children, 1,
                             prefix \o (IF last THEN <<" ", " ", " ", " ">>
                                        ELSE <<BoxVert, " ", " ", " ">>))
             \o BoxLinesWide(nodes, k + 1, prefix)

BoxTreeLinesWide ==
    tree.pc = "printed" =>
        tree.result = LinesText(BoxLinesWide(BuiltForest, 1, <<>>))

\* C23: in every registry state has_function(name) is true exactly when
\* get_function(name) returns a function.
C23_HasIffGet ==
    \A name \in RegNames :
        has_function(reg, name) <=> (get_function(reg, name) # {})

\* What the code guarantees: a name get_function finds is reported by
\* has_function; the converse fails for an alias whose target is not a
\* registered function.
GetImpliesHas ==
    \A name \in RegNames :
        /\ get_function(reg, name) # {} => has_function(reg, name)
        /\ (has_function(reg, name) /\ get_function(reg, name) = {}) =>
               /\ name \in DOMAIN reg.aliases
               /\ name \notin DOMAIN reg.functions
               /\ reg.aliases[name] \notin DOMAIN reg.functions

(***************************************************************************)
(* The event loop on the events of a sequence of blocks: paragraphs, code  *)
(* blocks, blockquotes, tables and one-level lists, tight or loose.  Every *)
(* kind of block has its own letter as text.                               *)
(***************************************************************************)

MaxBlocks == 2

BlockInputs ==
    {[k |-> "para"]}
    \cup {[k |-> "code", text |-> t] : t \in {<<>>, <<"c", "\n">>}}
    \cup {[k |-> "quote", text |-> t] : t \in {<<>>, <<"q">>}}
    \cup {[k |-> "table", rows |-> n] : n \in 0..1}
    \cup {[k |-> "list", loose |-> l, items |-> n] :
              l \in BOOLEAN, n \in 1..2}

\* The events of a paragraph with the text.
ParagraphEvents(text) ==
    <<Ev("StartParagraph"), EvText(text), Ev("EndParagraph")>>

\* The events of a table cell with the text.
CellEvents(text) ==
    <<Ev("StartTableCell"), EvText(text), Ev("EndTableCell")>>

\* The events of the n items of a one-level list.
RECURSIVE FlatItemEvents(_, _)
FlatItemEvents(loose, n) ==
    IF n = 0 THEN <<>>
    ELSE <<Ev("StartItem")>>
         \o (IF loose THEN ParagraphEvents(<<"i">>) ELSE <<EvText(<<"i">>)>>)
         \o <<Ev("EndItem")>> \o FlatItemEvents(loose, n - 1)

\* The events of one block.
OneBlockEvents(b) ==
    CASE b.k = "para" -> ParagraphEvents(<<"p">>)
      [] b.k = "code" ->
            <<[e |-> "StartCodeBlock", fenced |-> TRUE, lang |-> <<>>]>>
            \o (IF b.text = <<>> THEN <<>> ELSE <<EvText(b.text)>>)
            \o <<Ev("EndCodeBlock")>>
      [] b.k = "quote" ->
            <<Ev("StartBlockQuote")>>
            \o (IF b.text = <<>> THEN <<>> ELSE ParagraphEvents(b.text))
            \o <<Ev("EndBlockQuote")>>
      [] b.k = "table" ->
            <<[e |-> "StartTable", alignments |-> <<"None">>],
              Ev("StartTableHead")>> \o CellEvents(<<"h">>)
            \o <<Ev("EndTableHead")>>
            \o (IF b.rows = 0 THEN <<>>
                ELSE <<Ev("StartTableRow")>> \o CellEvents(<<"r">>)
                     \o <<Ev("EndTableRow")>>)
            \o <<Ev("EndTable")>>
      [] b.k = "list" ->
            <<[e |-> "StartList", start_number |-> <<>>]>>
            \o FlatItemEvents(b.loose, b.items) \o <<Ev("EndList")>>

\* The events of the blocks.
RECURSIVE AllBlockEvents(_)
AllBlockEvents(bs) ==
    IF bs = <<>> THEN <<>>
    ELSE OneBlockEvents(Head(bs)) \o AllBlockEvents(Tail(bs))

BlocksInit ==
    /\ \E bs \in SeqsUpTo(BlockInputs, MaxBlocks) :
           cnt = ContentStart(bs, AllBlockEvents(bs))
    /\ lev = Idle /\ slug = Idle /\ reg = Idle /\ tree = Idle
    /\ sect = Idle /\ prs = Idle /\ fnc = Idle

SpecBlocks == BlocksInit /\ [][ContentNext]_vars

\* The event that has just been processed, if any.
LastEvent ==
    IF cnt.pc = "events" /\ cnt.pos > 1 THEN cnt.events[cnt.pos - 1].e
    ELSE "none"

\* The mode flag is off after the End event of its block.
FlagsOffAfterEnd ==
    /\ LastEvent = "EndCodeBlock" => ~cnt.state.in_code
    /\ LastEvent = "EndBlockQuote" => ~cnt.state.in_blockquote
    /\ LastEvent = "EndTable" => ~cnt.state.in_table
    /\ (LastEvent = "EndList" /\ cnt.state.list_depth = 0) =>
           ~cnt.state.in_list

\* No paragraph text in the code or blockquote buffer, nor in an emitted
\* Code or Blockquote block.
NoParagraphTextInCodeOrQuote ==
    /\ ~Contains(cnt.state.code_buffer, <<"p">>)
    /\ ~Contains(cnt.state.blockquote_buffer, <<"p">>)
    /\ \A b \in 1..Len(cnt.blocks) :
           cnt.blocks[b].type \in {"Code", "Blockquote"} =>
               ~Contains(cnt.blocks[b].content, <<"p">>)

\* C24: after End(CodeBlock), End(BlockQuote), End(Table) or the End(List)
\* of the outermost list the mode flag of the block is false whatever the
\* block contained, and the text of a later paragraph is never appended to
\* the code or blockquote buffer nor emitted in a Code or Blockquote block.
C24_ModeFlagsCleared == FlagsOffAfterEnd /\ NoParagraphTextInCodeOrQuote

\* What the code guarantees: the table and list flags are cleared; the
\* code and blockquote flags are cleared when their buffer is not empty.
FlagsOffAfterNonEmpty ==
    /\ (LastEvent = "EndCodeBlock" /\ cnt.state.in_code) =>
           cnt.state.code_buffer = <<>>
    /\ (LastEvent = "EndBlockQuote" /\ cnt.state.in_blockquote) =>
           cnt.state.blockquote_buffer = <<>>
    /\ LastEvent = "EndTable" => ~cnt.state.in_table
    /\ (LastEvent = "EndList" /\ cnt.state.list_depth = 0) =>
           ~cnt.state.in_list

\* The position of the first End(List) event.
FirstListEnd == EventIndex(cnt.events, "EndList")

\* The List block of a one-level unordered list of n items with the text.
FlatListBlock(n) ==
    [type |-> "List", ordered |-> FALSE,
     items |-> [k \in 1..n |->
                   [checked |-> <<>>, content |-> <<"i">>,
                    inline |-> <<[type |-> "Text", value |-> <<"i">>]>>]]]

\* The input starts with a list.
StartsWithList == cnt.input # <<>> /\ cnt.input[1].k = "list"

\* C25: for a list, tight or loose, no block is appended between its
\* Start(List) and End(List), and the List block emitted at End(List) holds
\* the text of every depth-1 item in the item's content.
C25_LooseListItemsKeepText ==
    (cnt.pc = "events" /\ StartsWithList) =>
        /\ cnt.pos <= FirstListEnd => cnt.blocks = <<>>
        /\ cnt.pos = FirstListEnd + 1 =>
               /\ Len(cnt.blocks) = 1
               /\ cnt.blocks[1].type = "List"
               /\ Len(cnt.blocks[1].items) = cnt.input[1].items
               /\ \A k \in 1..Len(cnt.blocks[1].items) :
                      cnt.blocks[1].items[k].content = <<"i">>

\* The same for tight lists only, with the whole block.
TightListItemsKeepText ==
    (cnt.pc = "events" /\ StartsWithList /\ ~cnt.input[1].loose) =>
        /\ cnt.pos <= FirstListEnd => cnt.blocks = <<>>
        /\ cnt.pos = FirstListEnd + 1 =>
               cnt.blocks = <<FlatListBlock(cnt.input[1].items)>>

\* What the code does with a loose list: every item's paragraph is emitted
\* as a Paragraph block, and the List block's items are empty.
LooseListItemsBecomeParagraphs ==
    (cnt.pc = "events" /\ StartsWithList /\ cnt.input[1].loose
     /\ cnt.pos = FirstListEnd + 1) =>
        /\ Len(cnt.blocks) = cnt.input[1].items + 1
        /\ \A k \in 1..cnt.input[1].items :
               /\ cnt.blocks[k].type = "Paragraph"
               /\ cnt.blocks[k].content = <<"i">>
        /\ cnt.blocks[Len(cnt.blocks)].type = "List"
        /\ \A k \in 1..Len(cnt.blocks[Len(cnt.blocks)].items) :
               cnt.blocks[Len(cnt.blocks)].items[k].content = <<>>

\* The position of the last Start(Paragraph) before position upto.
LastParagraphStart(events, upto) ==
    CHOOSE k \in 1..(upto - 1) :
        /\ events[k].e = "StartParagraph"
        /\ \A j \in (k + 1)..(upto - 1) : events[j].e # "StartParagraph"

\* The inline elements of the Text events at positions from..to.
RECURSIVE InlineBetween(_, _, _)
InlineBetween(events, from, to) ==
    IF from > to THEN <<>>
    ELSE (IF events[from].e = "Text"
          THEN <<[type |-> "Text", value |-> events[from].text]>>
          ELSE <<>>)
         \o InlineBetween(events, from + 1, to)

\* The step processes an End(Paragraph) that emits a Paragraph block.
EmitsParagraph ==
    /\ cnt.pc = "events"
    /\ cnt.pos <= Len(cnt.events)
    /\ cnt.events[cnt.pos].e = "EndParagraph"
    /\ Len(cnt'.blocks) = Len(cnt.blocks) + 1
    /\ cnt'.blocks[Len(cnt'.blocks)].type = "Paragraph"

\* C26: the inline list of a Paragraph block emitted at End(Paragraph)
\* holds the inline elements of the events since that paragraph's
\* Start(Paragraph), and nothing accumulated before it.
C26_ParagraphInlineIsOwn ==
    [][EmitsParagraph =>
           cnt'.blocks[Len(cnt'.blocks)].inline
               = InlineBetween(cnt.events,
                               LastParagraphStart(cnt.events, cnt.pos),
                               cnt.pos)]_vars

\* What the code guarantees: the paragraph's own inline elements are the
\* last ones of the emitted inline list.
ParagraphInlineEndsWithOwn ==
    [][EmitsParagraph =>
           LET own == InlineBetween(cnt.events,
                                    LastParagraphStart(cnt.events, cnt.pos),
                                    cnt.pos)
               inline == cnt'.blocks[Len(cnt'.blocks)].inline
           IN  /\ Len(own) <= Len(inline)
               /\ SubSeq(inline, Len(inline) - Len(own) + 1, Len(inline)) = own]_vars

\* The headings of the nodes from the k-th on in pre-order: a node, then
\* its children left to right.
RECURSIVE PreOrder(_, _)
PreOrder(nodes, k) ==
    IF k > Len(nodes) THEN <<>>
    ELSE <<nodes[k].heading>> \o PreOrder(nodes[k].children, 1)
         \o PreOrder(nodes, k + 1)

\* The arena nodes from the k-th of ids on in pre-order; node n is the n-th
\* heading.
RECURSIVE ArenaPreOrder(_, _)
ArenaPreOrder(ids, k) ==
    IF k > Len(ids) THEN <<>>
    ELSE <<ids[k]>> \o ArenaPreOrder(tree.children[ids[k]], 1)
         \o ArenaPreOrder(ids, k + 1)

\* C27: flattening the forest build_tree returns in pre-order gives the
\* flat heading list back, every heading once and in source order.
C27_PreOrderIsHeadingList ==
    tree.pc = "done" =>
        /\ PreOrder(tree.result, 1) = tree.headings
        /\ ArenaPreOrder(tree.roots, 1)
             = [n \in 1..Len(tree.headings) |-> n]

\* A finished forest with two roots, a node with two children and a
\* grandchild.
C27_Witness ==
    /\ tree.pc = "done"
    /\ Len(tree.result) >= 2
    /\ \E k \in 1..Len(tree.result) :
           /\ Len(tree.result[k].children) >= 2
           /\ \E c \in 1..Len(tree.result[k].children) :
                  tree.result[k].children[c].children # <<>>
    /\ PreOrder(tree.result, 1) = tree.headings

(***************************************************************************)
(* Element selectors followed by brackets: `.h2` and then one or more of   *)
(* `[1]`, `[-1]`, `[1:]`, `[:2]`, `[1:2]`, `[]` and `["s"]`.               *)
(***************************************************************************)

MaxBrackets == 2

\* The contents of a bracket: the forms of an index and one filter.
BracketForms ==
    {<<Tok("Number", 1)>>, <<Tok("Number", 2)>>,
     <<Tok("Minus", ""), Tok("Number", 1)>>,
     <<Tok("Number", 1), Tok("Colon", "")>>,
     <<Tok("Colon", ""), Tok("Number", 2)>>,
     <<Tok("Number", 1), Tok("Colon", ""), Tok("Number", 2)>>,
     <<>>, <<Tok("String", "s")>>}

\* The tokens of the k-th bracket of brackets on.
RECURSIVE BracketsTokens(_, _)
BracketsTokens(brackets, k) ==
    IF k > Len(brackets) THEN <<>>
    ELSE <<Tok("LBracket", "")>> \o brackets[k] \o <<Tok("RBracket", "")>>
         \o BracketsTokens(brackets, k + 1)

ChainInit ==
    /\ \E n \in 1..MaxBrackets : \E brackets \in [1..n -> BracketForms] :
           prs = [pc |-> "input", brackets |-> brackets,
                  tokens |-> <<Tok("Dot", ""), Tok("Ident", "h2")>>
                             \o BracketsTokens(brackets, 1)
                             \o <<Tok("Eof", "")>>,
                  result |-> Err("", 0)]
    /\ lev = Idle /\ slug = Idle /\ reg = Idle /\ tree = Idle /\ sect = Idle
    /\ fnc = Idle /\ cnt = Idle

SpecChain == ChainInit /\ [][ParseQuery]_vars

\* The index operation a bracket content writes: <<op>>, or <<>> for the
\* filter.
WrittenIndex(content) ==
    LET r == parse_filter_or_index(
                 <<Tok("LBracket", "")>> \o content
                 \o <<Tok("RBracket", ""), Tok("Eof", "")>>, 0)
    IN  IF r.ok /\ r.expr.variant = "Index" THEN <<r.expr.op>> ELSE <<>>

\* The index operations written in the brackets from the k-th on, in source
\* order.
RECURSIVE WrittenIndexes(_, _)
WrittenIndexes(brackets, k) ==
    IF k > Len(brackets) THEN <<>>
    ELSE WrittenIndex(brackets[k]) \o WrittenIndexes(brackets, k + 1)

\* The index operation the second argument of a synthetic `_index` call
\* stands for.
IndexOfArgument(arg) ==
    CHOOSE op \in {[type |-> "Single", n |-> n] : n \in {-1, 1, 2}}
                  \cup {[type |-> "Slice", start |-> s, end |-> e]
                        : s \in {<<>>, <<1>>}, e \in {<<>>, <<2>>}}
                  \cup {[type |-> "Iterate"]} : IndexArgument(op) = arg

\* The index operations an expression holds, innermost first: the index of
\* an element selector, then those of the `_index` calls around it.
RECURSIVE RetainedIndexes(_)
RetainedIndexes(expr) ==
    IF expr.type = "Element" THEN expr.index
    ELSE IF expr.type = "Function" /\ expr.name = "_index"
    THEN Append(RetainedIndexes(expr.args[1]), IndexOfArgument(expr.args[2]))
    ELSE <<>>

\* C28: a query `.h2` followed by brackets that parses holds every index
\* operation written in its brackets, in source order: a later bracket does
\* not replace an earlier index.
C28_EveryIndexRetained ==
    (prs.pc = "done" /\ prs.result.ok)
        => /\ Len(prs.result.expr) = 1 /\ Len(prs.result.expr[1]) = 1
           /\ RetainedIndexes(prs.result.expr[1][1])
                  = WrittenIndexes(prs.brackets, 1)

\* What the parser does: the element selector holds the last index written
\* and no other.
LastIndexRetained ==
    (prs.pc = "done" /\ prs.result.ok)
        => LET written == WrittenIndexes(prs.brackets, 1)
           IN  RetainedIndexes(prs.result.expr[1][1])
                   = IF written = <<>> THEN <<>>
                     ELSE <<written[Len(written)]>>

(***************************************************************************)
(* The built-in function nth (query/builtins/mod.rs).  The numbers of the  *)
(* model are integers, so `*n as i64` leaves them as they are.             *)
(***************************************************************************)

\* s.chars() on the strings of the model.
Chars(s) ==
    CASE s = "" -> <<>>
      [] s = "a" -> <<"a">>
      [] s = "ab" -> <<"a", "b">>

\* The `idx` of fn_nth for a collection of len elements.
nth_idx(len, n) == IF n < 0 THEN saturating_sub(len, 0 - n) ELSE n

\* fn_nth
fn_nth(args) ==
    LET input == ArgOr(args, 1, VNull)
        n == IF Len(args) >= 2 /\ args[2].kind = "Number" THEN args[2].n
             ELSE 0
    IN  CASE input.kind = "Array" ->
                 LET idx == nth_idx(Len(input.a), n)
                 IN  IF idx < Len(input.a) THEN <<input.a[idx + 1]>>
                     ELSE <<>>
          [] input.kind = "String" ->
                 LET idx == nth_idx(Len(Chars(input.s)), n)
                 IN  IF idx < Len(Chars(input.s))
                     THEN <<VString(Chars(input.s)[idx + 1])>>
                     ELSE <<>>
          [] OTHER -> <<>>

MaxNthLen == 3
MaxNthIndex == 4

\* The inputs of nth: arrays, strings and a value that is neither.
NthInputs ==
    {VArray(a) : a \in SeqsUpTo({VNumber(0), VString("a")}, MaxNthLen)}
        \cup {VString(""), VString("a"), VString("ab"), VNull}

\* The arguments after the input: none, an integer, or not a number.
NthArguments ==
    {<<>>, <<VNull>>}
        \cup {<<VNumber(i)>> : i \in (0 - MaxNthIndex)..MaxNthIndex}

NthInit ==
    /\ \E input \in NthInputs, rest \in NthArguments :
           fnc = [pc |-> "call", name |-> "nth", args |-> <<input>> \o rest,
                  result |-> <<>>]
    /\ lev = Idle /\ slug = Idle /\ reg = Idle /\ tree = Idle /\ sect = Idle
    /\ prs = Idle /\ cnt = Idle

\* Function::call of fn_nth
CallNth ==
    /\ fnc.pc = "call" /\ fnc.name = "nth"
    /\ fnc' = [fnc EXCEPT !.pc = "done", !.result = fn_nth(fnc.args)]
    /\ UNCHANGED <<lev, slug, reg, tree, sect, prs, cnt>>

SpecNth == NthInit /\ [][CallNth]_vars

\* nth(i) was called on an array with a number i.
NthOnArray ==
    /\ fnc.pc = "done" /\ fnc.args[1].kind = "Array"
    /\ Len(fnc.args) = 2 /\ fnc.args[2].kind = "Number"

\* C29: nth(i) on an array of length n is the element at index i when
\* 0 <= i < n, the element at index n + i when -n <= i < 0, and the empty
\* sequence for every other i.
C29_NthInRangeOrEmpty ==
    NthOnArray
        => LET a == fnc.args[1].a
               i == fnc.args[2].n
               n == Len(a)
           IN  fnc.result =
                   IF 0 <= i /\ i < n THEN <<a[i + 1]>>
                   ELSE IF 0 - n <= i /\ i < 0 THEN <<a[n + i + 1]>>
                   ELSE <<>>

\* What fn_nth does: an i below -n gives the first element of a non-empty
\* array, every other i is as C29 has it.
NthClampsToFirst ==
    NthOnArray
        => LET a == fnc.args[1].a
               i == fnc.args[2].n
               n == Len(a)
           IN  fnc.result =
                   IF 0 <= i /\ i < n THEN <<a[i + 1]>>
                   ELSE IF 0 - n <= i /\ i < 0 THEN <<a[n + i + 1]>>
                   ELSE IF i < 0 - n /\ n > 0 THEN <<a[1]>>
                   ELSE <<>>

(***************************************************************************)
(* The parser's position.  A behaviour takes a token sequence that ends in *)
(* Eof, moves the parser to some position with Parser::advance and calls   *)
(* one of the parse functions there, as the functions call each other at   *)
(* the positions they have reached.                                        *)
(***************************************************************************)

MaxTokens == 3

\* The tokens of the sequences, by the part of the grammar they exercise.
Vocabularies ==
    {{Tok("Dot", ""), Tok("Ident", "f"), Tok("Pipe", ""), Tok("Comma", ""),
      Tok("Not", "")},
     {Tok("Number", 1), Tok("Gt", ""), Tok("Minus", ""), Tok("Or", ""),
      Tok("Eof", "")},
     {Tok("Ident", "f"), Tok("LParen", ""), Tok("RParen", ""),
      Tok("Comma", ""), Tok("Number", 1)},
     {Tok("Dot", ""), Tok("Ident", "h2"), Tok("LBracket", ""),
      Tok("RBracket", ""), Tok("Number", 1)},
     {Tok("LBracket", ""), Tok("RBracket", ""), Tok("Number", 1),
      Tok("Comma", ""), Tok("Colon", "")},
     {Tok("If", ""), Tok("Then", ""), Tok("Elif", ""), Tok("Else", ""),
      Tok("End", ""), Tok("Number", 1)},
     {Tok("LBrace", ""), Tok("RBrace", ""), Tok("Ident", "f"),
      Tok("Colon", ""), Tok("Number", 1), Tok("Comma", "")}}

\* Longer queries: `. | . | .`, `f(1, 1)`, `[1, 1]`, `{f: 1, f: 1}`,
\* `.h2[1][1]`, `not - (1)`, `if 1 then 1 else 1 end` and
\* `if 1 then 1 elif 1 then 1 end end`.
LongQueries ==
    {<<Tok("Dot", ""), Tok("Pipe", ""), Tok("Dot", ""), Tok("Pipe", ""),
       Tok("Dot", "")>>,
     <<Tok("Ident", "f"), Tok("LParen", ""), Tok("Number", 1),
       Tok("Comma", ""), Tok("Number", 1), Tok("RParen", "")>>,
     <<Tok("LBracket", ""), Tok("Number", 1), Tok("Comma", ""),
       Tok("Number", 1), Tok("RBracket", "")>>,
     <<Tok("LBrace", ""), Tok("Ident", "f"), Tok("Colon", ""),
       Tok("Number", 1), Tok("Comma", ""), Tok("Ident", "f"),
       Tok("Colon", ""), Tok("Number", 1), Tok("RBrace", "")>>,
     <<Tok("Dot", ""), Tok("Ident", "h2"), Tok("LBracket", ""),
       Tok("Number", 1), Tok("RBracket", ""), Tok("LBracket", ""),
       Tok("Number", 1), Tok("RBracket", "")>>,
     <<Tok("Not", ""), Tok("Minus", ""), Tok("LParen", ""),
       Tok("Number", 1), Tok("RParen", "")>>,
     <<Tok("If", ""), Tok("Number", 1), Tok("Then", ""), Tok("Number", 1),
       Tok("Else", ""), Tok("Number", 1), Tok("End", "")>>,
     <<Tok("If", ""), Tok("Number", 1), Tok("Then", ""), Tok("Number", 1),
       Tok("Elif", ""), Tok("Number", 1), Tok("Then", ""), Tok("Number", 1),
       Tok("End", ""), Tok("End", "")>>}

\* The tokens that open a nested expression.
Openers == {"LParen", "LBracket", "LBrace", "If"}

\* The sequences with at most two opening tokens: every nested expression
\* takes the recursion once more through the twelve levels from
\* parse_piped_expr to parse_primary_expr.
TwiceNested(S) ==
    {toks \in S :
         Cardinality({i \in DOMAIN toks : toks[i].kind \in Openers}) <= 2}

\* The token sequences that end in Eof: every sequence of at most MaxTokens
\* tokens of a vocabulary, and every prefix of a longer query.
TokenSeqs ==
    {toks \o <<Tok("Eof", "")>>
     : toks \in UNION {TwiceNested(SeqsUpTo(v, MaxTokens)) : v \in Vocabularies}
                \cup UNION {{SubSeq(q, 1, k) : k \in 0..Len(q)}
                           : q \in LongQueries}}

\* The parse functions.
ParseFunctions ==
    {"parse", "parse_piped_expr", "parse_hierarchy_expr", "parse_or_expr",
     "parse_and_expr", "parse_equality_expr", "parse_comparison_expr",
     "parse_alt_expr", "parse_additive_expr", "parse_multiplicative_expr",
     "parse_unary_expr", "parse_postfix_expr", "parse_primary_expr",
     "parse_function_args", "parse_object_literal", "parse_array_literal",
     "parse_conditional", "parse_identifier", "parse_filter_or_index",
     "parse_index_or_filter"}

\* The call of a parse function at a position.
CallParseFunction(rule, toks, pos) ==
    CASE rule = "parse" -> parse(toks)
      [] rule = "parse_identifier" -> parse_identifier(toks, pos)
      [] rule = "parse_filter_or_index" -> parse_filter_or_index(toks, pos)
      [] rule = "parse_index_or_filter" -> parse_index_or_filter(toks, pos)
      [] OTHER -> ParseRule(rule, toks, pos)

PositionInit ==
    /\ \E tokens \in TokenSeqs :
           prs = [pc |-> "parsing", tokens |-> tokens, pos |-> 0,
                  call |-> <<>>]
    /\ lev = Idle /\ slug = Idle /\ reg = Idle /\ tree = Idle /\ sect = Idle
    /\ fnc = Idle /\ cnt = Idle

\* Parser::advance
ParserAdvance ==
    /\ prs.pc = "parsing"
    /\ prs' = [prs EXCEPT !.pos = Advance(prs.tokens, prs.pos)]
    /\ UNCHANGED <<lev, slug, reg, tree, sect, fnc, cnt>>

\* A parse function is called at the parser's position and returns; parse
\* itself is called at position 0.  call holds the function, the position
\* it was called at, whether it returned Ok, and whether it is
\* parse_function_args returning no argument.
CallParser ==
    /\ prs.pc = "parsing"
    /\ \E rule \in ParseFunctions :
           /\ rule = "parse" => prs.pos = 0
           /\ LET r == CallParseFunction(rule, prs.tokens, prs.pos)
              IN  prs' = [prs EXCEPT
                             !.pc = "returned",
                             !.pos = r.pos,
                             !.call = <<[rule |-> rule, from |-> prs.pos,
                                         ok |-> r.ok,
                                         empty |-> IF r.ok /\ rule = "parse_function_args"
                                                   THEN r.expr = <<>>
                                                   ELSE FALSE]>>]
    /\ UNCHANGED <<lev, slug, reg, tree, sect, fnc, cnt>>

PositionNext == ParserAdvance \/ CallParser

SpecPosition == PositionInit /\ [][PositionNext]_vars

\* The 0-based position of the first Eof token.
EofPosition(toks) ==
    CHOOSE i \in 0..(Len(toks) - 1) :
        /\ toks[i + 1].kind = "Eof"
        /\ \A j \in 0..(i - 1) : toks[j + 1].kind # "Eof"

\* C30: on a token sequence that ends in Eof the parser's position never
\* passes the Eof token, every parse function returns (Ok or Err) at a
\* position not before the one it was called at, and a parse function that
\* returns Ok has consumed at least one token, but for parse_function_args
\* when it returns no argument: the `(` before it is consumed by its
\* caller.
C30_PositionAdvancesUpToEof ==
    /\ prs.pos <= EofPosition(prs.tokens)
    /\ prs.pc = "returned"
           => LET call == prs.call[1]
              IN  /\ call.from <= prs.pos
                  /\ (call.ok /\ ~(call.rule = "parse_function_args"
                                   /\ call.empty))
                         => call.from < prs.pos
                  /\ (call.rule = "parse" /\ call.ok)
                         => prs.pos = EofPosition(prs.tokens)

\* parse_piped_expr, called at position 0 of `. | . | .`, has gone round
\* its loop twice and stands at the Eof.
C30_Witness ==
    /\ prs.pc = "returned"
    /\ prs.call[1].rule = "parse_piped_expr" /\ prs.call[1].ok
    /\ prs.call[1].from = 0
    /\ Kinds(prs.tokens) = <<"Dot", "Pipe", "Dot", "Pipe", "Dot", "Eof">>
    /\ prs.pos = 5

====
